---- MODULE Spec2Model ----
(***************************************************************************)
(* The batch-quote endpoint GET /api/batch of the market dashboard         *)
(* (src/app/api/batch/route.ts): parsing of the tickers parameter, the     *)
(* concurrent fan-out of one upstream quote lookup per ticker, the join by *)
(* Promise.allSettled and the mapping of the settled results to the JSON   *)
(* response.                                                               *)
(*                                                                         *)
(* A JavaScript string is a sequence of one-character strings.  A          *)
(* JavaScript value is a record [t |-> type, v |-> characters]; numbers    *)
(* keep their decimal text, since the handler never computes with them.    *)
(***************************************************************************)
EXTENDS Integers, Sequences, FiniteSets, TLC

VARIABLES
  tickersParam,  \* the value of searchParams.get("tickers"): Null or a string
  pc,            \* position of the handler: "parse", "check", "map", "await", "done"
  tickers,       \* the parsed symbols (route.ts:12-15)
  next,          \* index of the next element tickers.map will visit
  calls,         \* the arguments of the yahoo.quote calls issued so far, in order
  upstream,      \* per position, what the provider's quote call did
  promises,      \* per position, the state of the promise of the async callback
  order,         \* the positions in the order in which their lookups settled
  response,      \* the Response returned by GET, status 0 while there is none
  endpoint,      \* the route of the request: "batch", "quote", "history", "analyst"
  tickerParam,   \* searchParams.get("ticker") of a single-item request
  rangeParam,    \* searchParams.get("range") of a history request
  cpc,           \* position of a single-item handler: "start", "await", "done"
  ccalls,        \* the upstream calls a single-item handler has issued
  cupstream,     \* what the upstream call of a single-item handler did
  reqs,          \* two batch requests served by the same module, each with its locals
  cardTicker,    \* the ticker prop of a MiniCard
  cardRow,       \* the row prop of a MiniCard: snapshot[ticker]
  card,          \* what the MiniCard rendered
  mounted,       \* the Page component: "no" before it mounts, "yes", "gone" after
  now,           \* the time in ms since the page was opened
  timer,         \* the interval timer of the polling effect
  clicks,        \* how many times the user has changed a selection
  selected,      \* useState: the selected ticker
  range,         \* useState: the selected range
  projTicker,    \* useState: the ticker of the projections table
  snapshot,      \* useState: ticker -> row of the last batch response
  history,       \* useState: the rows of the chart
  error,         \* useState: the message of the error banner
  analyst,       \* useState: the analyst payload, Null when there is none
  showAnalyst,   \* useState: whether the analyst panel is open
  projRows,      \* useState: the rows of the projections table
  projError,     \* useState: the message of the projections error
  loadingSnapshot, loadingHistory, loadingAnalyst, loadingProj,  \* useState flags
  inflight,      \* the fetches that have not settled yet
  issued,        \* how many fetches the page has started
  started,       \* per kind of load, the load started last (history variable)
  completed      \* per kind of load, the load that settled last (history variable)

\* The state of a single-item request (quote, history, analyst).
collabVars == <<endpoint, tickerParam, rangeParam, cpc, ccalls, cupstream>>

\* The state of the batch handler serving one request.
batchVars == <<tickersParam, pc, tickers, next, calls, upstream, promises, order>>

\* The state of the pair of batch requests.
pairVars == <<reqs>>

\* The state of the page's card.
pageVars == <<cardTicker, cardRow, card>>

\* The state of the Page component and of its fetches.
clientVars ==
  <<mounted, now, timer, clicks, selected, range, projTicker, snapshot, history, error,
    analyst, showAnalyst, projRows, projError, loadingSnapshot, loadingHistory,
    loadingAnalyst, loadingProj, inflight, issued, started, completed>>

vars == <<tickersParam, pc, tickers, next, calls, upstream, promises, order, response,
          collabVars, pairVars, pageVars, clientVars>>

----------------------------------------------------------------------------
(* Bounds of the model. *)

\* Longest tickers parameter drawn exhaustively from Chars.
MaxLen == 4

\* The characters the exhaustive inputs are made of: a lower-case letter, an
\* upper-case letter, a whitespace character and the separator.
Chars == {"a", "A", " ", ","}

----------------------------------------------------------------------------
(* JavaScript values. *)

Str(s) == [t |-> "string", v |-> s]
Num(s) == [t |-> "number", v |-> s]
Undefined == [t |-> "undefined", v |-> <<>>]
Null == [t |-> "null", v |-> <<>>]
True == [t |-> "boolean", v |-> <<"t", "r", "u", "e">>]
False == [t |-> "boolean", v |-> <<"f", "a", "l", "s", "e">>]
NaN == Num(<<"N", "a", "N">>)

\* ToBoolean, as used by ||, ! and filter(Boolean).
Truthy(x) ==
  CASE x.t \in {"undefined", "null"} -> FALSE
    [] x.t = "string" -> x.v # <<>>
    [] x.t = "number" -> x.v \notin {<<"0">>, NaN.v}
    [] x.t = "boolean" -> x = True
    [] OTHER -> TRUE

\* a || b
Or(a, b) == IF Truthy(a) THEN a ELSE b

----------------------------------------------------------------------------
(* The input parser, route.ts:10-15. *)

IsSpace(c) == c = " "

\* String.prototype.toUpperCase on the letters the inputs use.
UpperChar(c) ==
  CASE c = "a" -> "A" [] c = "p" -> "P" [] c = "l" -> "L" [] c = "m" -> "M"
    [] c = "s" -> "S" [] c = "f" -> "F" [] c = "t" -> "T"
    [] OTHER -> c

ToUpperCase(s) == [i \in 1..Len(s) |-> UpperChar(s[i])]

RECURSIVE TrimStart(_)
TrimStart(s) ==
  IF s # <<>> /\ IsSpace(Head(s)) THEN TrimStart(Tail(s)) ELSE s

RECURSIVE TrimEnd(_)
TrimEnd(s) ==
  IF s # <<>> /\ IsSpace(s[Len(s)]) THEN TrimEnd(SubSeq(s, 1, Len(s) - 1)) ELSE s

\* Variant of Trim that strips the leading whitespace only (trimStart).
TrimStartOnly(s) == TrimStart(s)

\* String.prototype.trim
Trim(s) == TrimEnd(TrimStart(s))

\* String.prototype.split(","): the pieces between the separators; a string
\* with k separators has k + 1 pieces, the empty string has the one piece "".
RECURSIVE SplitFrom(_, _, _)
SplitFrom(s, piece, i) ==
  IF i > Len(s) THEN <<piece>>
  ELSE IF s[i] = "," THEN <<piece>> \o SplitFrom(s, <<>>, i + 1)
  ELSE SplitFrom(s, Append(piece, s[i]), i + 1)

Split(s) == SplitFrom(s, <<>>, 1)

\* .map(t => t.trim().toUpperCase())
NormalizeAll(pieces) == [i \in 1..Len(pieces) |-> ToUpperCase(Trim(pieces[i]))]

NonEmpty(s) == Truthy(Str(s))

\* .filter(Boolean)
FilterBoolean(pieces) == SelectSeq(pieces, NonEmpty)

\* searchParams.get("tickers") || "" followed by split/map/filter.
ParseTickersParam(p) ==
  FilterBoolean(NormalizeAll(Split(Or(p, Str(<<>>)).v)))

----------------------------------------------------------------------------
(* Inputs. *)

RECURSIVE StringsUpTo(_)
StringsUpTo(n) ==
  IF n = 0 THEN {<<>>}
  ELSE LET shorter == StringsUpTo(n - 1)
       IN shorter \cup {Append(s, c) : s \in {x \in shorter : Len(x) = n - 1}, c \in Chars}

\* "  aapl , MSFT,, msft "
ExampleParam ==
  <<" ", " ", "a", "a", "p", "l", " ", ",", " ", "M", "S", "F", "T", ",", ",",
    " ", "m", "s", "f", "t", " ">>

Params == {Null} \cup {Str(s) : s \in StringsUpTo(MaxLen) \cup {ExampleParam}}

NoResponse == [status |-> 0, body |-> [none |-> <<>>]]

----------------------------------------------------------------------------
(* The provider: what one yahoo.quote call can do. *)

Idle == [status |-> "idle"]
Pending == [status |-> "pending"]
Fulfilled(x) == [status |-> "fulfilled", value |-> x]
Rejected(x) == [status |-> "rejected", reason |-> x]

\* A quote payload; symbol is the provider's own form of the symbol.
Quote(short, long, price, change, currency) ==
  [t |-> "object", symbol |-> Str(<<"Z">>), shortName |-> short, longName |-> long,
   regularMarketPrice |-> price, regularMarketChangePercent |-> change,
   regularMarketChange |-> IF change.t = "number" THEN Num(<<"-", "0", ".", "0", "0", "3">>)
                           ELSE change,
   currency |-> currency]

ShortText == <<"I", "n", "c">>
LongText == <<"C", "o", "r", "p">>
PriceText == <<"1", ".", "5">>
ChangeText == <<"-", "0", ".", "2">>
CurrencyText == <<"U", "S", "D">>

QFull == Quote(Str(ShortText), Str(LongText), Num(PriceText), Num(ChangeText), Str(CurrencyText))
QLongOnly == Quote(Undefined, Str(LongText), Num(PriceText), Num(ChangeText), Str(CurrencyText))
QNoName == Quote(Undefined, Undefined, Num(PriceText), Num(ChangeText), Str(CurrencyText))
\* {} : an object with none of the fields
QEmpty == Quote(Undefined, Undefined, Undefined, Undefined, Undefined)
\* the values undefined and null returned in place of a payload
QUndefined == [QEmpty EXCEPT !.t = "undefined", !.symbol = Undefined]
QNull == [QEmpty EXCEPT !.t = "null", !.symbol = Undefined]

\* a payload whose short name is the empty string and whose numbers are zero
QBlankShort ==
  Quote(Str(<<>>), Str(LongText), Num(<<"0">>), Num(<<"0">>), Str(CurrencyText))

Payloads == {QFull, QLongOnly, QNoName, QBlankShort, QEmpty, QUndefined, QNull}

\* A rejection value: t its type, v its characters when it is a string, name
\* and message its properties when it is an object.
Reason(t, v, name, message) == [t |-> t, v |-> v, name |-> name, message |-> message]

ErrorText == <<"E", "r", "r", "o", "r">>
TypeErrorText == <<"T", "y", "p", "e">> \o ErrorText
NotFoundText == <<"N", "o", "t", " ", "F", "o", "u", "n", "d">>
TimeoutText == <<"t", "i", "m", "e", "o", "u", "t">>

\* new Error(m)
NewError(m) == Reason("Error", <<>>, ErrorText, Str(m))

Reasons ==
  { NewError(NotFoundText),                         \* Error with a message
    NewError(<<>>),                                 \* Error with an empty message
    Reason("string", TimeoutText, <<>>, Undefined), \* a plain string
    Reason("null", <<>>, <<>>, Undefined),
    Reason("undefined", <<>>, <<>>, Undefined),
    Reason("object", <<>>, <<>>, Undefined) }       \* {} : an object without message

Outcomes == {Fulfilled(q) : q \in Payloads} \cup {Rejected(r) : r \in Reasons}

----------------------------------------------------------------------------
(* The async callback of tickers.map, route.ts:22-31. *)

\* "Cannot read properties of undefined (reading 'shortName')"
CannotReadText(t) ==
  <<"C", "a", "n", "n", "o", "t", " ", "r", "e", "a", "d", " ", "p", "r", "o", "p",
    "e", "r", "t", "i", "e", "s", " ", "o", "f", " ">>
  \o (IF t = "null" THEN <<"n", "u", "l", "l">>
      ELSE <<"u", "n", "d", "e", "f", "i", "n", "e", "d">>)
  \o <<" ", "(", "r", "e", "a", "d", "i", "n", "g", " ", "'", "s", "h", "o", "r", "t",
       "N", "a", "m", "e", "'", ")">>

\* The error thrown by q.shortName when q is undefined or null.
PropertyTypeError(q) == Reason("Error", <<>>, TypeErrorText, Str(CannotReadText(q.t)))

\* a ?? b
Coalesce(a, b) == IF a.t \in {"undefined", "null"} THEN b ELSE a

\* Variant of QuoteValue that defaults the missing numbers and currency to null.
QuoteValueDefaulting(ticker, q) ==
  [ticker |-> Str(ticker),
   name |-> Or(Or(q.shortName, q.longName), Str(ticker)),
   price |-> Coalesce(q.regularMarketPrice, Null),
   changePercent |-> Coalesce(q.regularMarketChangePercent, Null),
   currency |-> Coalesce(q.currency, Null)]

\* Variant of QuoteValue that prefers the long name.
QuoteValueLongFirst(ticker, q) ==
  [ticker |-> Str(ticker),
   name |-> Or(Or(q.longName, q.shortName), Str(ticker)),
   price |-> q.regularMarketPrice,
   changePercent |-> q.regularMarketChangePercent,
   currency |-> q.currency]

\* route.ts:24-30: the object the callback returns.
QuoteValue(ticker, q) ==
  [ticker |-> Str(ticker),
   name |-> Or(Or(q.shortName, q.longName), Str(ticker)),
   price |-> q.regularMarketPrice,
   changePercent |-> q.regularMarketChangePercent,
   currency |-> q.currency]

\* Variant of QuoteCallback in which a lookup gives up as soon as another
\* lookup of the batch has failed (a fail-fast flag shared by the callbacks).
QuoteCallbackAbortOnFailure(ticker, o) ==
  IF \E j \in DOMAIN promises : promises[j].status = "rejected"
  THEN Rejected(NewError(<<"a", "b", "o", "r", "t", "e", "d">>))
  ELSE IF o.status = "rejected" THEN Rejected(o.reason)
  ELSE IF o.value.t \in {"undefined", "null"} THEN Rejected(PropertyTypeError(o.value))
  ELSE Fulfilled(QuoteValue(ticker, o.value))

\* route.ts:22-31: the state in which the callback's promise settles when the
\* provider's call settles as `o`.  An exception thrown inside an async function
\* rejects its promise.
QuoteCallback(ticker, o) ==
  IF o.status = "rejected" THEN Rejected(o.reason)
  ELSE IF o.value.t \in {"undefined", "null"} THEN Rejected(PropertyTypeError(o.value))
  ELSE Fulfilled(QuoteValue(ticker, o.value))

----------------------------------------------------------------------------
(* The join and the result mapping, route.ts:21 and 34-40. *)

\* Variant of AllSettledReady that waits until every promise is fulfilled.
AllFulfilledReady(ps) == \A i \in DOMAIN ps : ps[i].status = "fulfilled"

\* Promise.allSettled resolves once no promise is pending.
AllSettledReady(ps) == \A i \in DOMAIN ps : ps[i].status \in {"fulfilled", "rejected"}

\* Variant of AllSettled that lists the outcomes in the order of completion.
AllSettledByCompletion(ps) == [k \in DOMAIN ps |-> ps[order[k]]]

\* Promise.allSettled: the outcomes, in the order of the input array.
AllSettled(ps) == [i \in DOMAIN ps |-> ps[i]]

\* r.reason?.message
OptionalMessage(r) == IF r.t \in {"Error", "object"} THEN r.message ELSE Undefined

\* String(r.reason)
StringOf(r) ==
  CASE r.t = "string" -> r.v
    [] r.t = "null" -> <<"n", "u", "l", "l">>
    [] r.t = "undefined" -> <<"u", "n", "d", "e", "f", "i", "n", "e", "d">>
    [] r.t = "Error" ->
         IF r.message.v = <<>> THEN r.name ELSE r.name \o <<":", " ">> \o r.message.v
    [] OTHER -> <<"[", "o", "b", "j", "e", "c", "t", " ", "O", "b", "j", "e", "c", "t", "]">>

\* { ok: true, ...r.value }
SpreadOk(value) ==
  [k \in {"ok"} \cup DOMAIN value |-> IF k \in DOMAIN value THEN value[k] ELSE True]

\* Variant of MapResult that falls back to the string form only when the
\* message is undefined or null (?? in place of ||).
MapResultNullish(r, ticker) ==
  IF r.status = "fulfilled" THEN SpreadOk(r.value)
  ELSE [ok |-> False, ticker |-> Str(ticker),
        error |-> Coalesce(OptionalMessage(r.reason), Str(StringOf(r.reason)))]

\* route.ts:35-37: one element of data.
MapResult(r, ticker) ==
  IF r.status = "fulfilled" THEN SpreadOk(r.value)
  ELSE [ok |-> False, ticker |-> Str(ticker),
        error |-> Or(OptionalMessage(r.reason), Str(StringOf(r.reason)))]

\* Variant of MapResults that keeps the fulfilled results only.
MapResultsFulfilledOnly(results, syms) ==
  LET kept == SelectSeq([i \in DOMAIN results |-> i],
                        LAMBDA i : results[i].status = "fulfilled")
  IN [k \in DOMAIN kept |-> MapResult(results[kept[k]], syms[kept[k]])]

\* The entries of the settled results only, in input order.
MapResultsFulfilledOrRejected(results, syms) ==
  LET kept == SelectSeq([i \in DOMAIN results |-> i],
                        LAMBDA i : results[i].status \in {"fulfilled", "rejected"})
  IN [k \in DOMAIN kept |-> MapResult(results[kept[k]], syms[kept[k]])]

\* route.ts:34-38: results.map((r, i) => ...)
MapResults(results, syms) == [i \in DOMAIN results |-> MapResult(results[i], syms[i])]

\* JSON.stringify of a value inside an object: NaN becomes null.
JsonValue(x) == IF x = NaN THEN Null ELSE x

\* JSON.stringify of an object: a property whose value is undefined is left out.
JsonObject(o) == [k \in {j \in DOMAIN o : o[j].t # "undefined"} |-> JsonValue(o[k])]

MissingTickersText ==
  <<"M", "i", "s", "s", "i", "n", "g", " ", "t", "i", "c", "k", "e", "r", "s">>

\* Response.json(body, {status}): the status and the parsed JSON text of body.
\* data is an array of objects, targets and consensus are objects, upgrades
\* is an array passed through; every other property is a plain value.
ResponseJson(body, status) ==
  [status |-> status,
   body |-> [k \in {j \in DOMAIN body :
                     j \in {"data", "targets", "consensus", "upgrades"}
                       \/ body[j].t # "undefined"} |->
               CASE k = "data" -> [i \in DOMAIN body.data |-> JsonObject(body.data[i])]
                 [] k \in {"targets", "consensus"} -> JsonObject(body[k])
                 [] k = "upgrades" -> body[k]
                 [] OTHER -> JsonValue(body[k])]]

----------------------------------------------------------------------------
(* The Page component, page.tsx:977-1113: its state before it mounts. *)

\* A load that has not happened.
NoLoad == [id |-> 0, res |-> NoResponse, src |-> <<>>, fresh |-> FALSE, failed |-> FALSE]

Kinds == {"snapshot", "history", "analyst", "projections"}

\* page.tsx:978-979 and 993: the initial values of useState.
InitialTicker == <<"A", "A", "P", "L">>
InitialRange == <<"1", "y">>

\* page.tsx:977-996: the initial values of useState, no timer, no fetch.
PageClosed ==
  /\ mounted = "no"
  /\ now = 0
  /\ timer = [active |-> FALSE, due |-> 0]
  /\ clicks = 0
  /\ selected = InitialTicker
  /\ range = InitialRange
  /\ projTicker = InitialTicker
  /\ snapshot = <<>>
  /\ history = <<>>
  /\ error = <<>>
  /\ analyst = Null
  /\ showAnalyst = FALSE
  /\ projRows = <<>>
  /\ projError = <<>>
  /\ loadingSnapshot = FALSE
  /\ loadingHistory = FALSE
  /\ loadingAnalyst = FALSE
  /\ loadingProj = FALSE
  /\ inflight = {}
  /\ issued = 0
  /\ started = [k \in Kinds |-> 0]
  /\ completed = [k \in Kinds |-> NoLoad]

----------------------------------------------------------------------------
(* The card of one ticker, page.tsx:895-928 and 1588-1662 (the same code is  *)
(* in part_001:395-467).                                                     *)

\* snapshot[tkr] when the snapshot has no entry for tkr.
NoEntry == [none |-> <<>>]

\* The card before React has rendered it.
NotRendered ==
  [rendered |-> FALSE, title |-> <<>>, price |-> Undefined, currency |-> Undefined,
   change |-> Undefined, marker |-> FALSE]

\* The text "—" (one em dash), written by its name.
Placeholder == [t |-> "text", v |-> <<"em dash">>, decimals |-> 0]

\* n.toLocaleString(undefined, {maximumFractionDigits: decimals}): the number
\* and the digits it is cut to; the separators depend on the locale.
Localized(n, decimals) == [t |-> "text", v |-> n.v, decimals |-> decimals]

SuffixSN == <<".", "S", "N">>

\* page.tsx:895-897: ticker.replace(".SN", ""), the first occurrence only.
CleanTicker(ticker) ==
  LET hits == {i \in 1..Len(ticker) : i + 2 <= Len(ticker) /\ SubSeq(ticker, i, i + 2) = SuffixSN}
  IN IF hits = {} THEN ticker
     ELSE LET i == CHOOSE h \in hits : \A g \in hits : h <= g
          IN SubSeq(ticker, 1, i - 1) \o SubSeq(ticker, i + 3, Len(ticker))

\* page.tsx:904-906
IsCLP(ticker, currency) ==
  \/ currency = Str(<<"C", "L", "P">>)
  \/ Len(ticker) >= 3 /\ SubSeq(ticker, Len(ticker) - 2, Len(ticker)) = SuffixSN

\* page.tsx:908-916
FormatPrice(ticker, price, currency) ==
  IF price.t # "number" THEN Placeholder
  ELSE Localized(price, IF IsCLP(ticker, currency) THEN 0 ELSE 2)

\* page.tsx:918-928: the text of the change, signed, with two decimals.
PctMeta(pct) ==
  IF pct.t # "number" \/ pct = NaN THEN Placeholder
  ELSE [t |-> "text",
        v |-> (IF pct.v[1] = "-" THEN <<>> ELSE <<"+">>) \o pct.v \o <<"%">>,
        decimals |-> 2]

\* row.name for a property the row may lack.
Get(row, name) == IF name \in DOMAIN row THEN row[name] ELSE Undefined

\* Variant of MiniCard that shows the marker whenever it has no price to show.
MiniCardMarkerWithoutPrice(row, ticker) ==
  LET ok == row # NoEntry /\ Truthy(Get(row, "ok"))
      price == IF ok THEN Get(row, "price") ELSE Undefined
      currency == IF ok THEN Get(row, "currency") ELSE Str(<<>>)
  IN [rendered |-> TRUE,
      title |-> CleanTicker(ticker),
      price |-> IF ok THEN FormatPrice(ticker, price, currency) ELSE Placeholder,
      currency |-> currency,
      change |-> PctMeta(IF ok THEN Get(row, "changePercent") ELSE Undefined),
      marker |-> price.t # "number"]

\* page.tsx:1588-1662: what the card shows.
MiniCard(row, ticker) ==
  LET ok == row # NoEntry /\ Truthy(Get(row, "ok"))
      pct == IF ok THEN Get(row, "changePercent") ELSE Undefined
      currency == IF ok THEN Get(row, "currency") ELSE Str(<<>>)
      price == IF ok THEN Get(row, "price") ELSE Undefined
  IN [rendered |-> TRUE,
      title |-> CleanTicker(ticker),
      price |-> IF ok THEN FormatPrice(ticker, price, currency) ELSE Placeholder,
      currency |-> currency,
      change |-> PctMeta(pct),
      marker |-> ~ok]

----------------------------------------------------------------------------
(* The single-item endpoints: GET /api/quote and GET /api/history            *)
(* (src/app/api/history/route.ts) and GET /api/analyst (src/unnamed/part_000). *)

\* String.prototype.toLowerCase on the letters the inputs use.
LowerChar(c) ==
  CASE c = "A" -> "a" [] c = "M" -> "m" [] c = "Y" -> "y" [] OTHER -> c

ToLowerCase(s) == [i \in 1..Len(s) |-> LowerChar(s[i])]

\* The values of the ticker parameter: absent, "", "a", "AA".
TickerParams == {Null, Str(<<>>), Str(<<"a">>), Str(<<"A", "A">>)}

ConstructorText ==
  <<"c", "o", "n", "s", "t", "r", "u", "c", "t", "o", "r">>

\* The values of the range parameter: absent, "", the four ranges, "1Y",
\* "2y" and "constructor".
RangeParams ==
  {Null, Str(<<>>), Str(<<"1", "m">>), Str(<<"3", "m">>), Str(<<"6", "m">>),
   Str(<<"1", "y">>), Str(<<"1", "Y">>), Str(<<"2", "y">>), Str(ConstructorText)}

\* A value that is a function object.
FunctionValue == [t |-> "function", v |-> <<>>]

\* history/route.ts:8-13 and 23, 27: RANGE_TO_DAYS[range], a property lookup
\* on an object literal: its own keys, else what Object.prototype holds.
RangeToDays(key) ==
  CASE key = <<"1", "m">> -> Num(<<"3", "1">>)
    [] key = <<"3", "m">> -> Num(<<"9", "3">>)
    [] key = <<"6", "m">> -> Num(<<"1", "8", "6">>)
    [] key = <<"1", "y">> -> Num(<<"3", "6", "6">>)
    [] key = ConstructorText -> FunctionValue
    [] OTHER -> Undefined

\* (searchParams.get("ticker") || "").toUpperCase()
TickerOf(p) == ToUpperCase(Or(p, Str(<<>>)).v)

\* (searchParams.get("range") || "1y").toLowerCase()
RangeOf(p) == ToLowerCase(Or(p, Str(<<"1", "y">>)).v)

\* One upstream call: the provider function, the ticker and, for historical,
\* the number of days between period1 and period2.
UpstreamCall(fn, ticker, days) == [fn |-> fn, ticker |-> ticker, days |-> days]

MissingTickerText ==
  <<"M", "i", "s", "s", "i", "n", "g", " ", "t", "i", "c", "k", "e", "r">>
InvalidRangeText ==
  <<"I", "n", "v", "a", "l", "i", "d", " ", "r", "a", "n", "g", "e">>
FailedQuoteText ==
  <<"F", "a", "i", "l", "e", "d", " ", "t", "o", " ", "f", "e", "t", "c",
    "h", " ", "q", "u", "o", "t", "e">>
FailedHistoryText ==
  <<"F", "a", "i", "l", "e", "d", " ", "t", "o", " ", "f", "e", "t", "c",
    "h", " ", "h", "i", "s", "t", "o", "r", "y">>
FailedAnalystText ==
  <<"F", "a", "i", "l", "e", "d", " ", "t", "o", " ", "f", "e", "t", "c",
    "h", " ", "a", "n", "a", "l", "y", "s", "t", " ", "d", "a", "t", "a">>

\* The answer of the framework when an exception leaves GET: a 500 that the
\* handler did not write.
Unhandled == [status |-> 500, body |-> [none |-> <<>>]]

\* Response.json({ error: "Missing ticker" }, { status: 400 })
MissingTicker == ResponseJson([error |-> Str(MissingTickerText)], 400)

\* catch (e: any) { ... details: e.message ... }: reading a property of null
\* or undefined throws inside the catch block; a string has no message.
CatchMessage(text, e) ==
  IF e.t \in {"null", "undefined"} THEN Unhandled
  ELSE ResponseJson([error |-> Str(text),
                     details |-> IF e.t \in {"Error", "object"} THEN e.message
                                 ELSE Undefined], 500)

\* catch (e: any) { ... details: e?.message || String(e) ... }
CatchMessageOrString(text, e) ==
  ResponseJson([error |-> Str(text),
                details |-> Or(OptionalMessage(e), Str(StringOf(e)))], 500)

(* GET /api/quote, history/route.ts:64-90. *)

\* history/route.ts:75-82: the body of the 200 response.
SingleQuoteBody(ticker, q) ==
  [ticker |-> Str(ticker),
   price |-> q.regularMarketPrice,
   change |-> q.regularMarketChange,
   changePercent |-> q.regularMarketChangePercent,
   currency |-> q.currency,
   name |-> Or(Or(q.shortName, q.longName), Str(ticker))]

\* history/route.ts:72-89: the response once yahoo.quote has settled as o.
QuoteResponse(ticker, o) ==
  IF o.status = "rejected" THEN CatchMessage(FailedQuoteText, o.reason)
  ELSE IF o.value.t \in {"undefined", "null"}
       THEN CatchMessage(FailedQuoteText, PropertyTypeError(o.value))
  ELSE ResponseJson(SingleQuoteBody(ticker, o.value), 200)

\* history/route.ts:64-73
QuoteGet ==
  /\ endpoint = "quote"
  /\ cpc = "start"
  /\ IF TickerOf(tickerParam) = <<>>
     THEN /\ response' = MissingTicker
          /\ cpc' = "done"
          /\ UNCHANGED <<ccalls, cupstream>>
     ELSE /\ ccalls' = Append(ccalls, UpstreamCall("quote", TickerOf(tickerParam), Undefined))
          /\ cupstream' = Pending
          /\ cpc' = "await"
          /\ UNCHANGED response
  /\ UNCHANGED <<clientVars, pairVars, pageVars, batchVars,
                 endpoint, tickerParam, rangeParam>>

\* history/route.ts:73-89
QuoteSettle ==
  /\ endpoint = "quote"
  /\ cpc = "await"
  /\ \E o \in Outcomes :
       /\ cupstream' = o
       /\ response' = QuoteResponse(TickerOf(tickerParam), o)
  /\ cpc' = "done"
  /\ UNCHANGED <<clientVars, pairVars, pageVars, batchVars,
                 endpoint, tickerParam, rangeParam, ccalls>>

(* GET /api/history, history/route.ts:15-54. *)

\* Longest array of rows the provider returns.
MaxRows == 2

\* A Date, held as its ISO text.
DateValue(iso) == [t |-> "date", v |-> iso]

Day2Text ==
  <<"2", "0", "2", "4", "-", "0", "1", "-", "0", "2", "T", "0", "0", ":",
    "0", "0", ":", "0", "0", ".", "0", "0", "0", "Z">>
Day3Text ==
  <<"2", "0", "2", "4", "-", "0", "1", "-", "0", "3", "T", "1", "4", ":",
    "3", "0", ":", "0", "0", ".", "0", "0", "0", "Z">>

\* One row of yahoo.historical; a null element has t = "null".
Row(date, close) == [t |-> "object", date |-> date, close |-> close]

RowKinds ==
  { Row(DateValue(Day2Text), Num(PriceText)),
    Row(DateValue(Day3Text), Num(<<"0">>)),
    Row(DateValue(Day3Text), Null),            \* no close
    Row(Undefined, Num(PriceText)),            \* no date
    [Row(Undefined, Undefined) EXCEPT !.t = "null"] }

RECURSIVE RowsUpTo(_)
RowsUpTo(n) ==
  IF n = 0 THEN {<<>>}
  ELSE LET shorter == RowsUpTo(n - 1)
       IN shorter \cup {Append(rs, r) : rs \in {x \in shorter : Len(x) = n - 1}, r \in RowKinds}

\* What yahoo.historical resolves to: an array of rows, undefined or null.
RowsValue(t, rows) == [t |-> t, rows |-> rows]

HistoryOutcomes ==
  {Fulfilled(RowsValue("array", rs)) : rs \in RowsUpTo(MaxRows)}
    \cup {Fulfilled(RowsValue("undefined", <<>>)), Fulfilled(RowsValue("null", <<>>))}
    \cup {Rejected(r) : r \in Reasons}

\* r?.date and r?.close
OptionalDate(r) == IF r.t \in {"null", "undefined"} THEN Undefined ELSE r.date
OptionalClose(r) == IF r.t \in {"null", "undefined"} THEN Undefined ELSE r.close

\* Variant of KeepRow that looks at the date only.
KeepRowWithDate(r) == Truthy(OptionalDate(r))

\* history/route.ts:40: r?.date && typeof r?.close === "number"
KeepRow(r) == Truthy(OptionalDate(r)) /\ OptionalClose(r).t = "number"

\* history/route.ts:41-44: new Date(r.date).toISOString().slice(0, 10)
RowOut(r) == [date |-> Str(SubSeq(r.date.v, 1, 10)), close |-> r.close]

\* history/route.ts:39-44: (rows || []).filter(...).map(...)
HistoryData(payload) ==
  LET rows == IF payload.t = "array" THEN payload.rows ELSE <<>>
      kept == SelectSeq(rows, KeepRow)
  IN [i \in 1..Len(kept) |-> RowOut(kept[i])]

\* history/route.ts:32-53: the response once yahoo.historical has settled as o.
HistoryResponse(ticker, r, o) ==
  IF o.status = "rejected" THEN CatchMessage(FailedHistoryText, o.reason)
  ELSE ResponseJson([ticker |-> Str(ticker), range |-> Str(r),
                     data |-> HistoryData(o.value)], 200)

\* history/route.ts:15-37
HistoryGet ==
  /\ endpoint = "history"
  /\ cpc = "start"
  /\ IF TickerOf(tickerParam) = <<>>
     THEN /\ response' = MissingTicker
          /\ cpc' = "done"
          /\ UNCHANGED <<ccalls, cupstream>>
     ELSE IF ~Truthy(RangeToDays(RangeOf(rangeParam)))
     THEN /\ response' = ResponseJson([error |-> Str(InvalidRangeText)], 400)
          /\ cpc' = "done"
          /\ UNCHANGED <<ccalls, cupstream>>
     ELSE /\ ccalls' = Append(ccalls, UpstreamCall("historical", TickerOf(tickerParam),
                                                   RangeToDays(RangeOf(rangeParam))))
          /\ cupstream' = Pending
          /\ cpc' = "await"
          /\ UNCHANGED response
  /\ UNCHANGED <<clientVars, pairVars, pageVars, batchVars,
                 endpoint, tickerParam, rangeParam>>

\* history/route.ts:33-53
HistorySettle ==
  /\ endpoint = "history"
  /\ cpc = "await"
  /\ \E o \in HistoryOutcomes :
       /\ cupstream' = o
       /\ response' = HistoryResponse(TickerOf(tickerParam), RangeOf(rangeParam), o)
  /\ cpc' = "done"
  /\ UNCHANGED <<clientVars, pairVars, pageVars, batchVars,
                 endpoint, tickerParam, rangeParam, ccalls>>

(* GET /api/analyst, part_000:8-44. *)

\* part_000:36: the number of upgrades the endpoint returns at most.
UpgradesShown == 5

\* summary.financialData; t = "undefined" when the module is missing.
FinancialData(t, mean, high, low, count, key, recMean) ==
  [t |-> t, targetMeanPrice |-> mean, targetHighPrice |-> high, targetLowPrice |-> low,
   numberOfAnalystOpinions |-> count, recommendationKey |-> key,
   recommendationMean |-> recMean]

FdFull ==
  FinancialData("object", Num(<<"2", "1", "0">>), Num(<<"2", "5", "0">>),
                Num(<<"1", "8", "0">>), Num(<<"4", "0">>), Str(<<"b", "u", "y">>),
                Num(<<"1", ".", "9">>))
FdPartial ==
  FinancialData("object", Num(<<"2", "1", "0">>), Undefined, Null, Num(<<"0">>),
                Undefined, Undefined)
FdMissing ==
  FinancialData("undefined", Undefined, Undefined, Undefined, Undefined, Undefined,
                Undefined)

\* summary.upgradeDowngradeHistory.history: k entries, the most recent first;
\* t = "undefined" when the module or its history is missing.
UpgradeHistory(k) == [t |-> "array", items |-> [i \in 1..k |-> [epochGradeDate |-> 100 - i]]]
HistoryMissing == [t |-> "undefined", items |-> <<>>]

\* What yahoo.quoteSummary resolves to.
Summary(t, fd, hist) == [t |-> t, financialData |-> fd, history |-> hist]

Summaries ==
  { Summary("undefined", FdMissing, HistoryMissing),
    Summary("null", FdMissing, HistoryMissing),
    Summary("object", FdMissing, HistoryMissing),
    Summary("object", FdPartial, UpgradeHistory(2)),
    Summary("object", FdFull, UpgradeHistory(0)),
    Summary("object", FdFull, UpgradeHistory(UpgradesShown + 1)) }

AnalystOutcomes == {Fulfilled(x) : x \in Summaries} \cup {Rejected(r) : r \in Reasons}

\* Array.prototype.slice(0, n)
SliceFirst(items, n) == SubSeq(items, 1, IF Len(items) < n THEN Len(items) ELSE n)

\* part_000:21-37: the body of the 200 response.
AnalystBody(ticker, summary) ==
  LET present == summary.t = "object"
      fd == IF present /\ Truthy(summary.financialData)
            THEN summary.financialData ELSE FdMissing
      get(name) == Coalesce(IF fd.t = "object" THEN fd[name] ELSE Undefined, Null)
  IN [ticker |-> Str(ticker),
      targets |-> [mean |-> get("targetMeanPrice"), high |-> get("targetHighPrice"),
                   low |-> get("targetLowPrice"),
                   analystCount |-> get("numberOfAnalystOpinions")],
      consensus |-> [recommendationKey |-> get("recommendationKey"),
                     recommendationMean |-> get("recommendationMean")],
      upgrades |-> IF present /\ summary.history.t = "array"
                   THEN SliceFirst(summary.history.items, UpgradesShown) ELSE <<>>]

\* part_000:13-43: the response once yahoo.quoteSummary has settled as o.
AnalystResponse(ticker, o) ==
  IF o.status = "rejected" THEN CatchMessageOrString(FailedAnalystText, o.reason)
  ELSE ResponseJson(AnalystBody(ticker, o.value), 200)

\* Variant of AnalystGet that calls the provider before looking at the ticker.
AnalystGetCallFirst ==
  /\ endpoint = "analyst"
  /\ cpc = "start"
  /\ ccalls' = Append(ccalls, UpstreamCall("quoteSummary", TickerOf(tickerParam), Undefined))
  /\ IF TickerOf(tickerParam) = <<>>
     THEN /\ response' = MissingTicker
          /\ cpc' = "done"
          /\ UNCHANGED cupstream
     ELSE /\ cupstream' = Pending
          /\ cpc' = "await"
          /\ UNCHANGED response
  /\ UNCHANGED <<clientVars, pairVars, pageVars, batchVars,
                 endpoint, tickerParam, rangeParam>>

\* part_000:8-20
AnalystGet ==
  /\ endpoint = "analyst"
  /\ cpc = "start"
  /\ IF TickerOf(tickerParam) = <<>>
     THEN /\ response' = MissingTicker
          /\ cpc' = "done"
          /\ UNCHANGED <<ccalls, cupstream>>
     ELSE /\ ccalls' = Append(ccalls, UpstreamCall("quoteSummary", TickerOf(tickerParam),
                                                   Undefined))
          /\ cupstream' = Pending
          /\ cpc' = "await"
          /\ UNCHANGED response
  /\ UNCHANGED <<clientVars, pairVars, pageVars, batchVars,
                 endpoint, tickerParam, rangeParam>>

\* part_000:14-43
AnalystSettle ==
  /\ endpoint = "analyst"
  /\ cpc = "await"
  /\ \E o \in AnalystOutcomes :
       /\ cupstream' = o
       /\ response' = AnalystResponse(TickerOf(tickerParam), o)
  /\ cpc' = "done"
  /\ UNCHANGED <<clientVars, pairVars, pageVars, batchVars,
                 endpoint, tickerParam, rangeParam, ccalls>>

----------------------------------------------------------------------------
(* The Page component, page.tsx:854-886 and 966-1113: what it sends, what    *)
(* it can receive and what it does with it.                                  *)

\* page.tsx:854
BIG7 ==
  << <<"A", "A", "P", "L">>,
     <<"M", "S", "F", "T">>,
     <<"A", "M", "Z", "N">>,
     <<"G", "O", "O", "G", "L">>,
     <<"M", "E", "T", "A">>,
     <<"N", "V", "D", "A">>,
     <<"T", "S", "L", "A">> >>

\* page.tsx:857-871
US_TOP_13 ==
  << <<"B", "R", "K", "-", "B">>,
     <<"J", "P", "M">>,
     <<"J", "N", "J">>,
     <<"V">>,
     <<"P", "G">>,
     <<"X", "O", "M">>,
     <<"U", "N", "H">>,
     <<"H", "D">>,
     <<"M", "A">>,
     <<"B", "A", "C">>,
     <<"W", "M", "T">>,
     <<"A", "V", "G", "O">>,
     <<"C", "O", "S", "T">> >>

\* page.tsx:875-886
CHILE ==
  << <<"L", "T", "M", ".", "S", "N">>,
     <<"S", "Q", "M", "-", "B", ".", "S", "N">>,
     <<"C", "H", "I", "L", "E", ".", "S", "N">>,
     <<"I", "T", "A", "U", "C", "L", ".", "S", "N">>,
     <<"C", "E", "N", "C", "O", "S", "U", "D", ".", "S", "N">>,
     <<"B", "S", "A", "N", "T", "A", "N", "D", "E", "R", ".", "S", "N">>,
     <<"F", "A", "L", "A", "B", "E", "L", "L", "A", ".", "S", "N">>,
     <<"E", "N", "E", "L", "A", "M", ".", "S", "N">>,
     <<"B", "C", "I", ".", "S", "N">>,
     <<"E", "M", "B", "O", "N", "O", "R", "-", "A", ".", "S", "N">> >>

\* page.tsx:998: every ticker of the three lists.
allTickers == BIG7 \o US_TOP_13 \o CHILE

\* The tickers the page of the model polls: one with letters only and one
\* with "-" and ".".
sampleTickers == <<BIG7[1], CHILE[2]>>

\* The tickers a click can select, and those the projections menu offers
\* (page.tsx:873, PROJECTIONS_UNIVERSE).
CardChoices == {sampleTickers[i] : i \in DOMAIN sampleTickers}
ProjectionChoices == {BIG7[1], US_TOP_13[1]}

\* The ranges a click can select: two of the four keys of RANGE_LABEL
\* (page.tsx:888-893).
RangeChoices == {<<"1", "m">>, <<"1", "y">>}

\* Array.prototype.join
RECURSIVE Join(_, _)
Join(list, sep) ==
  IF list = <<>> THEN <<>>
  ELSE IF Len(list) = 1 THEN list[1]
  ELSE list[1] \o sep \o Join(Tail(list), sep)

\* encodeURIComponent: letters, digits, "-" and "." stay; "," and " " are
\* percent-encoded.
RECURSIVE EncodeURIComponent(_)
EncodeURIComponent(s) ==
  IF s = <<>> THEN <<>>
  ELSE (CASE s[1] = "," -> <<"%", "2", "C">>
          [] s[1] = " " -> <<"%", "2", "0">>
          [] OTHER -> <<s[1]>>) \o EncodeURIComponent(Tail(s))

\* URLSearchParams.get: the value with its percent-escapes decoded and "+"
\* read as a space.
RECURSIVE SearchParam(_)
SearchParam(s) ==
  IF s = <<>> THEN <<>>
  ELSE IF Len(s) >= 3 /\ SubSeq(s, 1, 3) = <<"%", "2", "C">>
       THEN <<",">> \o SearchParam(SubSeq(s, 4, Len(s)))
  ELSE IF Len(s) >= 3 /\ SubSeq(s, 1, 3) = <<"%", "2", "0">>
       THEN <<" ">> \o SearchParam(SubSeq(s, 4, Len(s)))
  ELSE IF s[1] = "+" THEN <<" ">> \o SearchParam(Tail(s))
  ELSE <<s[1]>> \o SearchParam(Tail(s))

\* One fetch: its number, the load it belongs to and the query parameters
\* the server reads from its URL (Null for a parameter the URL lacks).
Fetch(id, kind, tickersQ, tickerQ, rangeQ) ==
  [id |-> id, kind |-> kind, tickers |-> tickersQ, ticker |-> tickerQ, range |-> rangeQ]

\* page.tsx:1020-1022
SnapshotFetch(id) ==
  Fetch(id, "snapshot",
        Str(SearchParam(EncodeURIComponent(Join(sampleTickers, <<",">>)))), Null, Null)

\* page.tsx:1043-1047
HistoryFetch(id, ticker, r) ==
  Fetch(id, "history", Null, Str(SearchParam(EncodeURIComponent(ticker))),
        Str(SearchParam(EncodeURIComponent(r))))

\* page.tsx:1062-1064
AnalystFetch(id, ticker) ==
  Fetch(id, "analyst", Null, Str(SearchParam(EncodeURIComponent(ticker))), Null)

\* page.tsx:1079-1081; the endpoint does not read the limit parameter.
ProjectionsFetch(id, ticker) ==
  Fetch(id, "projections", Null, Str(SearchParam(EncodeURIComponent(ticker))), Null)

(* What the endpoints answer, as functions of the query and of what the      *)
(* provider did.                                                             *)

\* batch/route.ts:8-41: the response of GET /api/batch when the lookup at
\* position i settles as os[i].
BatchEndpoint(param, os) ==
  LET syms == ParseTickersParam(param)
  IN IF Len(syms) = 0 THEN ResponseJson([error |-> Str(MissingTickersText)], 400)
     ELSE ResponseJson(
            [data |-> MapResults([i \in 1..Len(syms) |-> QuoteCallback(syms[i], os[i])],
                                 syms)], 200)

\* history/route.ts:15-54: the response of GET /api/history.
HistoryEndpoint(tp, rp, o) ==
  IF TickerOf(tp) = <<>> THEN MissingTicker
  ELSE IF ~Truthy(RangeToDays(RangeOf(rp)))
       THEN ResponseJson([error |-> Str(InvalidRangeText)], 400)
  ELSE HistoryResponse(TickerOf(tp), RangeOf(rp), o)

\* part_000:8-44: the response of GET /api/analyst.
AnalystEndpoint(tp, o) ==
  IF TickerOf(tp) = <<>> THEN MissingTicker ELSE AnalystResponse(TickerOf(tp), o)

\* fetch rejects: the request never reached the server.
NetworkError == [status |-> -1, body |-> [none |-> <<>>]]

BusyText ==
  <<"B", "u", "s", "y">>

\* An answer that is not the handler's: a 503 with a JSON body.
Busy == ResponseJson([error |-> Str(BusyText)], 503)

\* What one lookup of a polled ticker can do.
PageOutcomes == {Fulfilled(QFull), Rejected(NewError(NotFoundText))}

\* A result of a fetch: the response, and what the provider did behind it.
Result(res, src) == [res |-> res, src |-> src]

\* A 200 that is not the answer to the page's request: its data has two rows
\* for one ticker, the second a failure.
Repeated ==
  BatchEndpoint(Str(Join(<<BIG7[1], BIG7[1]>>, <<",">>)),
                <<Fulfilled(QFull), Rejected(NewError(NotFoundText))>>)

\* A 200 whose body is not JSON: res.json() rejects.
Garbled == [status |-> 200, body |-> [none |-> <<>>]]

\* The results of the fetch of a snapshot load: what the batch endpoint
\* answers to it, or an answer that is not the endpoint's (src is empty).
SnapshotResults(f) ==
  {Result(BatchEndpoint(f.tickers, os), os) :
     os \in [1..Len(ParseTickersParam(f.tickers)) -> PageOutcomes]}
    \cup {Result(r, <<>>) : r \in {NetworkError, Busy, Garbled, Repeated}}

HistoryResults(f) ==
  {Result(HistoryEndpoint(f.ticker, f.range, o), <<o>>) :
     o \in {Fulfilled(RowsValue("array", <<Row(DateValue(Day2Text), Num(PriceText))>>)),
            Rejected(NewError(NotFoundText))}}

AnalystResults(f) ==
  {Result(AnalystEndpoint(f.ticker, o), <<o>>) :
     o \in {Fulfilled(Summary("object", FdFull, UpgradeHistory(0))),
            Rejected(NewError(NotFoundText))}}

\* page.tsx:1087: the number of rows the projections table keeps.
ProjectionsShown == 10

\* The provider's upgrades, the oldest first.
UpgradeHistoryAscending(k) ==
  [t |-> "array", items |-> [i \in 1..k |-> [epochGradeDate |-> 50 + i]]]

\* The results of the fetch of a projections load: the provider has one update
\* more than the table keeps, or its call fails.
ProjectionsResults(f) ==
  {Result(AnalystEndpoint(f.ticker, o), <<o>>) :
     o \in {Fulfilled(Summary("object", FdFull, UpgradeHistoryAscending(ProjectionsShown + 1))),
            Rejected(NewError(NotFoundText))}}

(* What the loaders do with a response. *)

FailedToFetchText ==
  <<"F", "a", "i", "l", "e", "d", " ", "t", "o", " ", "f", "e", "t", "c",
    "h">>
UnexpectedEndText ==
  <<"U", "n", "e", "x", "p", "e", "c", "t", "e", "d", " ", "e", "n", "d",
    " ", "o", "f", " ", "J", "S", "O", "N", " ", "i", "n", "p", "u", "t">>
FailedSnapshotText ==
  <<"F", "a", "i", "l", "e", "d", " ", "t", "o", " ", "l", "o", "a", "d",
    " ", "s", "n", "a", "p", "s", "h", "o", "t">>
SnapshotErrorText ==
  <<"S", "n", "a", "p", "s", "h", "o", "t", " ", "e", "r", "r", "o", "r">>
FailedLoadHistoryText ==
  <<"F", "a", "i", "l", "e", "d", " ", "t", "o", " ", "l", "o", "a", "d",
    " ", "h", "i", "s", "t", "o", "r", "y">>
HistoryErrorText ==
  <<"H", "i", "s", "t", "o", "r", "y", " ", "e", "r", "r", "o", "r">>
FailedProjectionsText ==
  <<"F", "a", "i", "l", "e", "d", " ", "t", "o", " ", "l", "o", "a", "d",
    " ", "p", "r", "o", "j", "e", "c", "t", "i", "o", "n", "s">>
ProjectionsErrorText ==
  <<"P", "r", "o", "j", "e", "c", "t", "i", "o", "n", "s", " ", "e", "r",
    "r", "o", "r">>
AnalystErrorText ==
  <<"A", "n", "a", "l", "y", "s", "t", " ", "e", "r", "r", "o", "r">>

\* res.ok
ResOk(res) == res.status \in 200..299

\* page.tsx:1020-1024: await fetch, await res.json(), if (!res.ok) throw new
\* Error(json?.error || fallback): whether the try block was left, and the
\* message of what was thrown.
Thrown(res, fallback) ==
  IF res = NetworkError THEN [failed |-> TRUE, message |-> FailedToFetchText]
  ELSE IF "none" \in DOMAIN res.body THEN [failed |-> TRUE, message |-> UnexpectedEndText]
  ELSE IF ~ResOk(res)
       THEN [failed |-> TRUE,
             message |-> IF "error" \in DOMAIN res.body /\ Truthy(res.body.error)
                         THEN res.body.error.v ELSE fallback]
  ELSE [failed |-> FALSE, message |-> <<>>]

\* e?.message || fallback
CatchText(message, fallback) == IF message # <<>> THEN message ELSE fallback

\* Variant of SnapshotMap that files a row under its ticker without ".SN".
SnapshotMapCleaned(body) ==
  LET data == IF "data" \in DOMAIN body THEN body.data ELSE <<>>
      last(t) == CHOOSE i \in DOMAIN data :
                   /\ CleanTicker(data[i].ticker.v) = t
                   /\ \A j \in DOMAIN data : CleanTicker(data[j].ticker.v) = t => j <= i
  IN [t \in {CleanTicker(data[i].ticker.v) : i \in DOMAIN data} |-> data[last(t)]]

\* page.tsx:1026-1029: the map of the rows of json.data by their ticker; a
\* later row replaces an earlier one with the same ticker.
SnapshotMap(body) ==
  LET data == IF "data" \in DOMAIN body THEN body.data ELSE <<>>
      last(t) == CHOOSE i \in DOMAIN data :
                   /\ data[i].ticker.v = t
                   /\ \A j \in DOMAIN data : data[j].ticker.v = t => j <= i
  IN [t \in {data[i].ticker.v : i \in DOMAIN data} |-> data[last(t)]]

\* page.tsx:1050: json?.data || []
HistoryRows(body) == IF "data" \in DOMAIN body THEN body.data ELSE <<>>

\* page.tsx:966-975: the time of an update in ms; 0 when it has none.
parseAnalystTime(u) == IF u.epochGradeDate = 0 THEN 0 ELSE u.epochGradeDate * 1000

\* Array.prototype.sort with (a, b) => parseAnalystTime(b) - parseAnalystTime(a):
\* a stable sort, the most recent first.
RECURSIVE SortByTime(_)
SortByTime(rows) ==
  IF rows = <<>> THEN <<>>
  ELSE LET head == SortByTime(SubSeq(rows, 1, Len(rows) - 1))
           u == rows[Len(rows)]
           n == Cardinality({i \in DOMAIN head :
                               parseAnalystTime(head[i]) >= parseAnalystTime(u)})
       IN SubSeq(head, 1, n) \o <<u>> \o SubSeq(head, n + 1, Len(head))

\* page.tsx:1085-1087
ProjectionRows(body) ==
  LET rows == IF "upgrades" \in DOMAIN body THEN body.upgrades ELSE <<>>
  IN SliceFirst(SortByTime(rows), ProjectionsShown)

(* The effects, the loaders up to their fetch, and the user's clicks. *)

\* What the page does not touch: the state of the server's handlers.
serverVars == <<batchVars, response, collabVars, pairVars, pageVars>>

\* page.tsx:1098: the period of the polling timer, in ms.
PollMs == 60000

\* The step of the clock: half a period.
TimeStep == PollMs \div 2

\* The periods of the polling timer the model lets pass.
MaxTicks == 2

\* The changes of selection the user makes.
MaxClicks == 1

\* The number of the next fetch of kind k: fetches are numbered per kind.
NextId(k) == started[k] + 1

\* The history variable started after one load of each kind in ks started.
StartedAfter(ks) == [k \in Kinds |-> IF k \in ks THEN started[k] + 1 ELSE started[k]]

CompletedAfterStart(ks) ==
  [k \in Kinds |-> IF k \in ks THEN [completed[k] EXCEPT !.fresh = FALSE] ELSE completed[k]]

\* page.tsx:1096-1113: the first render; the three effects run in order:
\* loadSnapshot and setInterval, loadHistory, loadAnalyst and
\* setShowAnalyst(false), loadProjections. Each loader runs up to its fetch.
Mount ==
  /\ mounted = "no"
  /\ mounted' = "yes"
  /\ timer' = [active |-> TRUE, due |-> now + PollMs]
  /\ loadingSnapshot' = TRUE
  /\ loadingHistory' = TRUE
  /\ loadingAnalyst' = TRUE
  /\ loadingProj' = TRUE
  /\ error' = <<>>
  /\ projError' = <<>>
  /\ showAnalyst' = FALSE
  /\ inflight' = inflight \cup { SnapshotFetch(NextId("snapshot")),
                                 HistoryFetch(NextId("history"), selected, range),
                                 AnalystFetch(NextId("analyst"), selected),
                                 ProjectionsFetch(NextId("projections"), projTicker) }
  /\ issued' = issued + 4
  /\ started' = StartedAfter(Kinds)
  /\ completed' = CompletedAfterStart(Kinds)
  /\ UNCHANGED <<serverVars, now, clicks, selected, range, projTicker, snapshot, history,
                 analyst, projRows>>

\* Time passes; a timer that is due fires first.
Advance ==
  /\ mounted # "no"
  /\ now + TimeStep <= MaxTicks * PollMs
  /\ ~(timer.active /\ timer.due <= now)
  /\ now' = now + TimeStep
  /\ UNCHANGED <<serverVars, mounted, timer, clicks, selected, range, projTicker, snapshot,
                 history, error, analyst, showAnalyst, projRows, projError,
                 loadingSnapshot, loadingHistory, loadingAnalyst, loadingProj, inflight,
                 issued, started, completed>>

\* Variant of Tick that skips the load while an earlier one is in flight.
TickUnlessLoading ==
  /\ timer.active
  /\ timer.due = now
  /\ timer' = [timer EXCEPT !.due = now + PollMs]
  /\ IF loadingSnapshot
     THEN UNCHANGED <<loadingSnapshot, error, inflight, issued, started, completed>>
     ELSE /\ loadingSnapshot' = TRUE
          /\ error' = <<>>
          /\ inflight' = inflight \cup {SnapshotFetch(NextId("snapshot"))}
          /\ issued' = issued + 1
          /\ started' = StartedAfter({"snapshot"})
          /\ completed' = CompletedAfterStart({"snapshot"})
  /\ UNCHANGED <<serverVars, mounted, now, clicks, selected, range, projTicker, snapshot,
                 history, analyst, showAnalyst, projRows, projError, loadingHistory,
                 loadingAnalyst, loadingProj>>

\* page.tsx:1098 and 1016-1022: the timer fires and loadSnapshot runs up to
\* its fetch.
Tick ==
  /\ timer.active
  /\ timer.due = now
  /\ timer' = [timer EXCEPT !.due = now + PollMs]
  /\ loadingSnapshot' = TRUE
  /\ error' = <<>>
  /\ inflight' = inflight \cup {SnapshotFetch(NextId("snapshot"))}
  /\ issued' = issued + 1
  /\ started' = StartedAfter({"snapshot"})
  /\ completed' = CompletedAfterStart({"snapshot"})
  /\ UNCHANGED <<serverVars, mounted, now, clicks, selected, range, projTicker, snapshot,
                 history, analyst, showAnalyst, projRows, projError, loadingHistory,
                 loadingAnalyst, loadingProj>>

\* page.tsx:1099: the page goes away and the cleanup clears the timer.
Unmount ==
  /\ mounted = "yes"
  /\ mounted' = "gone"
  /\ timer' = [timer EXCEPT !.active = FALSE]
  /\ UNCHANGED <<serverVars, now, clicks, selected, range, projTicker, snapshot, history,
                 error, analyst, showAnalyst, projRows, projError, loadingSnapshot,
                 loadingHistory, loadingAnalyst, loadingProj, inflight, issued, started,
                 completed>>

\* Variant of SelectionEffect that loads the history only.
SelectionEffectHistoryOnly(t, r) ==
  /\ loadingHistory' = TRUE
  /\ error' = <<>>
  /\ showAnalyst' = FALSE
  /\ inflight' = inflight \cup {HistoryFetch(NextId("history"), t, r)}
  /\ issued' = issued + 1
  /\ started' = StartedAfter({"history"})
  /\ completed' = CompletedAfterStart({"history"})
  /\ UNCHANGED loadingAnalyst

\* page.tsx:1103-1108: the effect of [selected, range] after one of them
\* changed to (t, r): loadHistory and loadAnalyst run up to their fetch.
SelectionEffect(t, r) ==
  /\ loadingHistory' = TRUE
  /\ error' = <<>>
  /\ loadingAnalyst' = TRUE
  /\ showAnalyst' = FALSE
  /\ inflight' = inflight \cup {HistoryFetch(NextId("history"), t, r), AnalystFetch(NextId("analyst"), t)}
  /\ issued' = issued + 2
  /\ started' = StartedAfter({"history", "analyst"})
  /\ completed' = CompletedAfterStart({"history", "analyst"})

\* page.tsx:1199: a click on the card of another ticker.
Select(t) ==
  /\ mounted = "yes"
  /\ clicks < MaxClicks
  /\ t # selected
  /\ selected' = t
  /\ clicks' = clicks + 1
  /\ SelectionEffect(t, range)
  /\ UNCHANGED <<serverVars, mounted, now, timer, range, projTicker, snapshot, history,
                 analyst, projRows, projError, loadingSnapshot, loadingProj>>

\* page.tsx:1279: a click on the button of another range.
SetRange(r) ==
  /\ mounted = "yes"
  /\ clicks < MaxClicks
  /\ r # range
  /\ range' = r
  /\ clicks' = clicks + 1
  /\ SelectionEffect(selected, r)
  /\ UNCHANGED <<serverVars, mounted, now, timer, selected, projTicker, snapshot, history,
                 analyst, projRows, projError, loadingSnapshot, loadingProj>>

\* page.tsx:1345 and 1110-1113: another ticker is chosen for the projections
\* and loadProjections runs up to its fetch.
SetProjTicker(t) ==
  /\ mounted = "yes"
  /\ clicks < MaxClicks
  /\ t # projTicker
  /\ projTicker' = t
  /\ clicks' = clicks + 1
  /\ loadingProj' = TRUE
  /\ projError' = <<>>
  /\ inflight' = inflight \cup {ProjectionsFetch(NextId("projections"), t)}
  /\ issued' = issued + 1
  /\ started' = StartedAfter({"projections"})
  /\ completed' = CompletedAfterStart({"projections"})
  /\ UNCHANGED <<serverVars, mounted, now, timer, selected, range, snapshot, history, error,
                 analyst, showAnalyst, projRows, loadingSnapshot, loadingHistory,
                 loadingAnalyst>>

\* page.tsx:446 (setShowAnalyst((v) => !v)): the analyst panel opens or closes.
ToggleAnalyst ==
  /\ mounted = "yes"
  /\ showAnalyst' = ~showAnalyst
  /\ UNCHANGED <<serverVars, mounted, now, timer, clicks, selected, range, projTicker,
                 snapshot, history, error, analyst, projRows, projError, loadingSnapshot,
                 loadingHistory, loadingAnalyst, loadingProj, inflight, issued, started,
                 completed>>

(* The loaders from their fetch on. A fetch that settles after the page is   *)
(* gone changes nothing: React drops the updates of an unmounted component.  *)

\* The record of the load of fetch f that settled as x.
Done(f, x, failed) == [id |-> f.id, res |-> x.res, src |-> x.src, fresh |-> TRUE,
                       failed |-> failed]

Dropped(f) ==
  /\ inflight' = inflight \ {f}
  /\ UNCHANGED <<serverVars, mounted, now, timer, clicks, selected, range, projTicker,
                 snapshot, history, error, analyst, showAnalyst, projRows, projError,
                 loadingSnapshot, loadingHistory, loadingAnalyst, loadingProj, issued,
                 started, completed>>

\* Variant of SnapshotArrive that keeps the earlier quotes when a load fails.
SnapshotArriveKeeping ==
  \E f \in inflight :
    /\ f.kind = "snapshot"
    /\ IF mounted = "gone" THEN Dropped(f)
       ELSE \E x \in SnapshotResults(f) :
              LET e == Thrown(x.res, FailedSnapshotText)
              IN /\ snapshot' = IF e.failed THEN snapshot ELSE SnapshotMap(x.res.body)
                 /\ error' = IF e.failed THEN CatchText(e.message, SnapshotErrorText)
                             ELSE error
                 /\ loadingSnapshot' = FALSE
                 /\ inflight' = inflight \ {f}
                 /\ completed' = [completed EXCEPT !["snapshot"] = Done(f, x, e.failed)]
                 /\ UNCHANGED <<serverVars, mounted, now, timer, clicks, selected, range,
                                projTicker, history, analyst, showAnalyst, projRows,
                                projError, loadingHistory, loadingAnalyst, loadingProj,
                                issued, started>>

\* page.tsx:1020-1036: the fetch of a snapshot load settles and loadSnapshot
\* runs to its end.
SnapshotArrive ==
  \E f \in inflight :
    /\ f.kind = "snapshot"
    /\ IF mounted = "gone" THEN Dropped(f)
       ELSE \E x \in SnapshotResults(f) :
              LET e == Thrown(x.res, FailedSnapshotText)
              IN /\ snapshot' = IF e.failed THEN <<>> ELSE SnapshotMap(x.res.body)
                 /\ error' = IF e.failed THEN CatchText(e.message, SnapshotErrorText)
                             ELSE error
                 /\ loadingSnapshot' = FALSE
                 /\ inflight' = inflight \ {f}
                 /\ completed' = [completed EXCEPT !["snapshot"] = Done(f, x, e.failed)]
                 /\ UNCHANGED <<serverVars, mounted, now, timer, clicks, selected, range,
                                projTicker, history, analyst, showAnalyst, projRows,
                                projError, loadingHistory, loadingAnalyst, loadingProj,
                                issued, started>>

\* page.tsx:1043-1056: the fetch of a history load settles and loadHistory
\* runs to its end.
HistoryArrive ==
  \E f \in inflight :
    /\ f.kind = "history"
    /\ IF mounted = "gone" THEN Dropped(f)
       ELSE \E x \in HistoryResults(f) :
              LET e == Thrown(x.res, FailedLoadHistoryText)
              IN /\ history' = IF e.failed THEN <<>> ELSE HistoryRows(x.res.body)
                 /\ error' = IF e.failed THEN CatchText(e.message, HistoryErrorText)
                             ELSE error
                 /\ loadingHistory' = FALSE
                 /\ inflight' = inflight \ {f}
                 /\ completed' = [completed EXCEPT !["history"] = Done(f, x, e.failed)]
                 /\ UNCHANGED <<serverVars, mounted, now, timer, clicks, selected, range,
                                projTicker, snapshot, analyst, showAnalyst, projRows,
                                projError, loadingSnapshot, loadingAnalyst, loadingProj,
                                issued, started>>

\* page.tsx:1062-1072: the fetch of an analyst load settles and loadAnalyst
\* runs to its end.
AnalystArrive ==
  \E f \in inflight :
    /\ f.kind = "analyst"
    /\ IF mounted = "gone" THEN Dropped(f)
       ELSE \E x \in AnalystResults(f) :
              LET e == Thrown(x.res, AnalystErrorText)
              IN /\ analyst' = IF e.failed THEN Null ELSE x.res.body
                 /\ loadingAnalyst' = FALSE
                 /\ inflight' = inflight \ {f}
                 /\ completed' = [completed EXCEPT !["analyst"] = Done(f, x, e.failed)]
                 /\ UNCHANGED <<serverVars, mounted, now, timer, clicks, selected, range,
                                projTicker, snapshot, history, error, showAnalyst,
                                projRows, projError, loadingSnapshot, loadingHistory,
                                loadingProj, issued, started>>

\* page.tsx:1079-1093: the fetch of a projections load settles and
\* loadProjections runs to its end.
ProjectionsArrive ==
  \E f \in inflight :
    /\ f.kind = "projections"
    /\ IF mounted = "gone" THEN Dropped(f)
       ELSE \E x \in ProjectionsResults(f) :
              LET e == Thrown(x.res, FailedProjectionsText)
              IN /\ projRows' = IF e.failed THEN <<>> ELSE ProjectionRows(x.res.body)
                 /\ projError' = IF e.failed THEN CatchText(e.message, ProjectionsErrorText)
                                 ELSE projError
                 /\ loadingProj' = FALSE
                 /\ inflight' = inflight \ {f}
                 /\ completed' = [completed EXCEPT !["projections"] = Done(f, x, e.failed)]
                 /\ UNCHANGED <<serverVars, mounted, now, timer, clicks, selected, range,
                                projTicker, snapshot, history, error, analyst, showAnalyst,
                                loadingSnapshot, loadingHistory, loadingAnalyst, issued,
                                started>>

\* The page before it mounts; the handlers of the server are at rest.
PageInit ==
  /\ PageClosed
  /\ endpoint = "page"
  /\ tickersParam = Null
  /\ pc = "none"
  /\ tickerParam = Null
  /\ rangeParam = Null
  /\ cpc = "none"
  /\ ccalls = <<>>
  /\ cupstream = Idle
  /\ reqs = <<>>
  /\ cardTicker = <<>>
  /\ cardRow = NoEntry
  /\ card = NotRendered
  /\ tickers = <<>>
  /\ next = 1
  /\ calls = <<>>
  /\ upstream = <<>>
  /\ promises = <<>>
  /\ order = <<>>
  /\ response = NoResponse

\* A visit shorter than one period of the timer: the user clicks.
PageNext ==
  \/ Mount
  \/ \E t \in CardChoices : Select(t)
  \/ \E r \in RangeChoices : SetRange(r)
  \/ \E t \in ProjectionChoices : SetProjTicker(t)
  \/ ToggleAnalyst
  \/ SnapshotArrive
  \/ HistoryArrive
  \/ AnalystArrive
  \/ ProjectionsArrive

PageSpec == PageInit /\ [][PageNext]_vars

\* A visit without clicks: the timer polls.
PollNext ==
  \/ Mount
  \/ Advance
  \/ Tick
  \/ Unmount
  \/ SnapshotArrive
  \/ HistoryArrive
  \/ AnalystArrive
  \/ ProjectionsArrive

PollSpec == PageInit /\ [][PollNext]_vars

----------------------------------------------------------------------------
(* The handler GET, route.ts:8-41. *)

Init ==
  /\ PageClosed
  /\ \/ /\ endpoint = "batch"
        /\ tickersParam \in Params
        /\ pc = "parse"
        /\ tickerParam = Null
        /\ rangeParam = Null
        /\ cpc = "none"
     \/ /\ endpoint \in {"quote", "history", "analyst"}
        /\ tickersParam = Null
        /\ pc = "none"
        /\ tickerParam \in TickerParams
        /\ rangeParam \in (IF endpoint = "history" THEN RangeParams ELSE {Null})
        /\ cpc = "start"
  /\ ccalls = <<>>
  /\ cupstream = Idle
  /\ reqs = <<>>
  /\ cardTicker = <<>>
  /\ cardRow = NoEntry
  /\ card = NotRendered
  /\ tickers = <<>>
  /\ next = 1
  /\ calls = <<>>
  /\ upstream = <<>>
  /\ promises = <<>>
  /\ order = <<>>
  /\ response = NoResponse

\* route.ts:9-15
ParseTickers ==
  /\ pc = "parse"
  /\ tickers' = ParseTickersParam(tickersParam)
  /\ pc' = "check"
  /\ UNCHANGED <<clientVars, pairVars, pageVars, collabVars,
                 tickersParam, next, calls, upstream, promises, order, response>>

\* Variant of RejectMissing that never rejects.
RejectNever == FALSE

\* route.ts:17-19: if (!tickers.length) return 400
RejectMissing ==
  /\ pc = "check"
  /\ Len(tickers) = 0
  /\ response' = ResponseJson([error |-> Str(MissingTickersText)], 400)
  /\ pc' = "done"
  /\ UNCHANGED <<clientVars, pairVars, pageVars, collabVars,
                 tickersParam, tickers, next, calls, upstream, promises, order>>

\* route.ts:21-22: the handler falls through the check and tickers.map begins.
BeginMap ==
  /\ pc = "check"
  /\ ~ENABLED RejectMissing
  /\ upstream' = [i \in 1..Len(tickers) |-> Idle]
  /\ promises' = [i \in 1..Len(tickers) |-> Idle]
  /\ next' = 1
  /\ pc' = IF Len(tickers) = 0 THEN "await" ELSE "map"
  /\ UNCHANGED <<clientVars, pairVars, pageVars, collabVars,
                 tickersParam, tickers, calls, order, response>>

\* Variant of StartLookup that coalesces the lookups of a repeated symbol:
\* no call is issued for a symbol that was already looked up.
StartLookupCoalesced ==
  /\ pc = "map"
  /\ next <= Len(tickers)
  /\ calls' = IF \E k \in DOMAIN calls : calls[k] = tickers[next]
              THEN calls ELSE Append(calls, tickers[next])
  /\ upstream' = [upstream EXCEPT ![next] = Pending]
  /\ promises' = [promises EXCEPT ![next] = Pending]
  /\ next' = next + 1
  /\ pc' = IF next = Len(tickers) THEN "await" ELSE "map"
  /\ UNCHANGED <<clientVars, pairVars, pageVars, collabVars,
                 tickersParam, tickers, order, response>>

\* route.ts:22-23: tickers.map calls the async callback on element `next`; it
\* runs synchronously up to its await, that is, it calls yahoo.quote(ticker).
\* After the last element the handler reaches its own await (route.ts:21).
StartLookup ==
  /\ pc = "map"
  /\ next <= Len(tickers)
  /\ calls' = Append(calls, tickers[next])
  /\ upstream' = [upstream EXCEPT ![next] = Pending]
  /\ promises' = [promises EXCEPT ![next] = Pending]
  /\ next' = next + 1
  /\ pc' = IF next = Len(tickers) THEN "await" ELSE "map"
  /\ UNCHANGED <<clientVars, pairVars, pageVars, collabVars,
                 tickersParam, tickers, order, response>>

\* Variant of Settle that memoises by symbol: a lookup of a symbol whose other
\* lookup has settled takes that lookup's result.
SettleMemoised(i) ==
  /\ pc = "await"
  /\ upstream[i].status = "pending"
  /\ \E o \in Outcomes :
       /\ upstream' = [upstream EXCEPT ![i] = o]
       /\ promises' =
            [promises EXCEPT ![i] =
               IF \E j \in DOMAIN promises :
                    tickers[j] = tickers[i] /\ promises[j].status \in {"fulfilled", "rejected"}
               THEN promises[CHOOSE j \in DOMAIN promises :
                      tickers[j] = tickers[i] /\ promises[j].status \in {"fulfilled", "rejected"}]
               ELSE QuoteCallback(tickers[i], o)]
  /\ order' = Append(order, i)
  /\ UNCHANGED <<clientVars, pairVars, pageVars, collabVars,
                 tickersParam, pc, tickers, next, calls, response>>

\* route.ts:23-30: the provider settles lookup i with outcome o and the
\* callback resumes.  A continuation runs only once the synchronous part of the
\* handler has run to its await, hence pc = "await".
Settle(i) ==
  /\ pc = "await"
  /\ upstream[i].status = "pending"
  /\ \E o \in Outcomes :
       /\ upstream' = [upstream EXCEPT ![i] = o]
       /\ promises' = [promises EXCEPT ![i] = QuoteCallback(tickers[i], o)]
  /\ order' = Append(order, i)
  /\ UNCHANGED <<clientVars, pairVars, pageVars, collabVars,
                 tickersParam, pc, tickers, next, calls, response>>

\* Variant of Respond that joins with Promise.all: a rejected lookup rejects
\* the join, the exception leaves GET and the framework answers 500.
RespondPromiseAll ==
  /\ pc = "await"
  /\ AllSettledReady(promises)
  /\ response' =
       IF \E i \in DOMAIN promises : promises[i].status = "rejected"
       THEN [status |-> 500, body |-> [none |-> <<>>]]
       ELSE ResponseJson([data |-> MapResults(AllSettled(promises), tickers)], 200)
  /\ pc' = "done"
  /\ UNCHANGED <<clientVars, pairVars, pageVars, collabVars,
                 tickersParam, tickers, next, calls, upstream, promises, order>>

\* Variant of Respond that answers as soon as one lookup has settled, with the
\* entries of the lookups settled so far (a race instead of a join).
RespondEarly ==
  /\ pc = "await"
  /\ \E i \in DOMAIN promises : promises[i].status \in {"fulfilled", "rejected"}
  /\ response' =
       ResponseJson([data |-> MapResultsFulfilledOrRejected(promises, tickers)], 200)
  /\ pc' = "done"
  /\ UNCHANGED <<clientVars, pairVars, pageVars, collabVars,
                 tickersParam, tickers, next, calls, upstream, promises, order>>

\* route.ts:21 and 34-40: Promise.allSettled resolves, the results are mapped
\* and the response is returned.
Respond ==
  /\ pc = "await"
  /\ AllSettledReady(promises)
  /\ response' = ResponseJson([data |-> MapResults(AllSettled(promises), tickers)], 200)
  /\ pc' = "done"
  /\ UNCHANGED <<clientVars, pairVars, pageVars, collabVars,
                 tickersParam, tickers, next, calls, upstream, promises, order>>

Next ==
  \/ ParseTickers
  \/ RejectMissing
  \/ BeginMap
  \/ StartLookup
  \/ \E i \in 1..Len(tickers) : Settle(i)
  \/ Respond
  \/ QuoteGet
  \/ QuoteSettle
  \/ HistoryGet
  \/ HistorySettle
  \/ AnalystGet
  \/ AnalystSettle

Spec == Init /\ [][Next]_vars

\* The handler's own steps are always taken (the event loop runs every ready
\* continuation), and every upstream lookup eventually settles.
LiveSpec ==
  /\ Spec
  /\ WF_vars(ParseTickers)
  /\ WF_vars(RejectMissing)
  /\ WF_vars(BeginMap)
  /\ WF_vars(StartLookup)
  /\ WF_vars(\E i \in 1..Len(tickers) : Settle(i))
  /\ WF_vars(Respond)
  /\ WF_vars(QuoteGet)
  /\ WF_vars(QuoteSettle)
  /\ WF_vars(HistoryGet)
  /\ WF_vars(HistorySettle)
  /\ WF_vars(AnalystGet)
  /\ WF_vars(AnalystSettle)

----------------------------------------------------------------------------
(* Two batch requests served by the same module. Every name GET assigns is   *)
(* a const local of the call (route.ts:9-38); the module holds the provider  *)
(* client only (route.ts:6). A call runs without interruption up to its      *)
(* await; the provider then settles the lookups of both calls in any order.  *)

PairParams == {Null, Str(<<"a">>), Str(<<"a", ",", "A">>)}

PairOutcomes ==
  { Fulfilled(QFull), Fulfilled(QEmpty),
    Rejected(NewError(NotFoundText)), Rejected(Reason("null", <<>>, <<>>, Undefined)) }

\* The locals of one call of GET.
Request(param) ==
  [param |-> param, pc |-> "parse", tickers |-> <<>>, calls |-> <<>>, upstream |-> <<>>,
   promises |-> <<>>, order |-> <<>>, response |-> NoResponse]

\* route.ts:8-31: GET up to the await.
PairStart(r) ==
  /\ reqs[r].pc = "parse"
  /\ LET syms == ParseTickersParam(reqs[r].param)
     IN reqs' =
          [reqs EXCEPT ![r] =
             IF Len(syms) = 0
             THEN [@ EXCEPT !.pc = "done",
                            !.response = ResponseJson([error |-> Str(MissingTickersText)], 400)]
             ELSE [@ EXCEPT !.pc = "await",
                            !.tickers = syms,
                            !.calls = syms,
                            !.upstream = [i \in 1..Len(syms) |-> Pending],
                            !.promises = [i \in 1..Len(syms) |-> Pending]]]
  /\ UNCHANGED <<batchVars, response, collabVars, pageVars, clientVars>>

\* Variant of PairSettle that answers from a module-level cache of the quotes
\* already fetched for the same ticker.
PairSettleCached(r, i) ==
  /\ reqs[r].pc = "await"
  /\ reqs[r].upstream[i].status = "pending"
  /\ \E o \in PairOutcomes :
       LET hits == {h \in (DOMAIN reqs) \X (1..2) :
                      /\ h[2] \in DOMAIN reqs[h[1]].promises
                      /\ reqs[h[1]].tickers[h[2]] = reqs[r].tickers[i]
                      /\ reqs[h[1]].promises[h[2]].status = "fulfilled"}
           hit == CHOOSE h \in hits : TRUE
       IN reqs' =
            [reqs EXCEPT ![r] =
               [@ EXCEPT !.upstream[i] = o,
                         !.promises[i] = IF hits = {} THEN QuoteCallback(reqs[r].tickers[i], o)
                                         ELSE reqs[hit[1]].promises[hit[2]],
                         !.order = Append(@, i)]]
  /\ UNCHANGED <<batchVars, response, collabVars, pageVars, clientVars>>

\* route.ts:23-30: one lookup of call r settles and its callback resumes.
PairSettle(r, i) ==
  /\ reqs[r].pc = "await"
  /\ reqs[r].upstream[i].status = "pending"
  /\ \E o \in PairOutcomes :
       reqs' =
         [reqs EXCEPT ![r] =
            [@ EXCEPT !.upstream[i] = o,
                      !.promises[i] = QuoteCallback(reqs[r].tickers[i], o),
                      !.order = Append(@, i)]]
  /\ UNCHANGED <<batchVars, response, collabVars, pageVars, clientVars>>

\* route.ts:21 and 34-40: the join of call r is ready and GET returns.
PairRespond(r) ==
  /\ reqs[r].pc = "await"
  /\ AllSettledReady(reqs[r].promises)
  /\ reqs' =
       [reqs EXCEPT ![r] =
          [@ EXCEPT !.pc = "done",
                    !.response =
                      ResponseJson([data |-> MapResults(AllSettled(reqs[r].promises),
                                                        reqs[r].tickers)], 200)]]
  /\ UNCHANGED <<batchVars, response, collabVars, pageVars, clientVars>>

PairInit ==
  /\ PageClosed
  /\ reqs \in [1..2 -> {Request(p) : p \in PairParams}]
  /\ endpoint = "batch"
  /\ tickersParam = Null
  /\ pc = "none"
  /\ tickerParam = Null
  /\ rangeParam = Null
  /\ cpc = "none"
  /\ ccalls = <<>>
  /\ cupstream = Idle
  /\ cardTicker = <<>>
  /\ cardRow = NoEntry
  /\ card = NotRendered
  /\ tickers = <<>>
  /\ next = 1
  /\ calls = <<>>
  /\ upstream = <<>>
  /\ promises = <<>>
  /\ order = <<>>
  /\ response = NoResponse

PairNext ==
  \/ \E r \in 1..2 : PairStart(r)
  \/ \E r \in 1..2 : \E i \in 1..Len(reqs[r].tickers) : PairSettle(r, i)
  \/ \E r \in 1..2 : PairRespond(r)

PairSpec == PairInit /\ [][PairNext]_vars

----------------------------------------------------------------------------
(* The card of one ticker, given every row the batch endpoint can send. *)

CardTickers == {<<"A">>, <<"A", "A">>, <<"A", ".", "S", "N">>}

\* The rows of a snapshot: the entries of a batch response, or no entry.
CardRows ==
  {NoEntry} \cup {JsonObject(MapResult(QuoteCallback(t, o), t)) : t \in CardTickers, o \in Outcomes}

\* page.tsx:1194-1200: React renders the card of cardTicker.
RenderCard ==
  /\ ~card.rendered
  /\ card' = MiniCard(cardRow, cardTicker)
  /\ UNCHANGED <<batchVars, response, collabVars, pairVars, cardTicker, cardRow, clientVars>>

CardInit ==
  /\ PageClosed
  /\ cardTicker \in CardTickers
  /\ cardRow \in CardRows
  /\ card = NotRendered
  /\ reqs = <<>>
  /\ endpoint = "page"
  /\ tickersParam = Null
  /\ pc = "none"
  /\ tickerParam = Null
  /\ rangeParam = Null
  /\ cpc = "none"
  /\ ccalls = <<>>
  /\ cupstream = Idle
  /\ tickers = <<>>
  /\ next = 1
  /\ calls = <<>>
  /\ upstream = <<>>
  /\ promises = <<>>
  /\ order = <<>>
  /\ response = NoResponse

CardNext == RenderCard

CardSpec == CardInit /\ [][CardNext]_vars

----------------------------------------------------------------------------
(* Vocabulary of the properties. *)

N == Len(tickers)
Responded == response.status # 0
Data == response.body.data
SettledAt(i) == upstream[i].status \in {"fulfilled", "rejected"}
FailedAt(i) == promises[i].status = "rejected"
Distinct(seq) == \A i, j \in DOMAIN seq : i # j => seq[i] # seq[j]

\* The characters of the tickers parameter ("" when it is absent).
ParamText == IF tickersParam.t = "string" THEN tickersParam.v ELSE <<>>

\* The parameter holds nothing but separators and whitespace.
BlankParam == \A i \in DOMAIN ParamText : ParamText[i] \in {",", " "}

----------------------------------------------------------------------------
(* C1: for a request with N >= 1 parsed symbols the response is a 200 whose  *)
(* data array has exactly N entries, and the entry at position i carries the *)
(* i-th parsed symbol as its ticker, in whatever order the lookups settled   *)
(* and whether they succeeded or failed.                                     *)
C1_OrderPreserved ==
  (pc = "done" /\ N >= 1) =>
    /\ response.status = 200
    /\ Len(Data) = N
    /\ \A i \in 1..N : Data[i].ticker = Str(tickers[i])

\* Two different symbols, the second lookup settling first, one of them failing.
C1_Witness ==
  /\ pc = "done"
  /\ N = 2
  /\ tickers[1] # tickers[2]
  /\ order = <<2, 1>>
  /\ FailedAt(1)
  /\ ~FailedAt(2)
  /\ Data[1].ticker = Str(tickers[1])

----------------------------------------------------------------------------
(* C2: the entry at position i is determined by the outcome of lookup i      *)
(* alone: it is ok:true exactly when lookup i returned an object, it is the  *)
(* entry that the symbol and that outcome give, every lookup has settled (no *)
(* lookup was cancelled), and while the batch runs the promise of position i *)
(* reflects the outcome of lookup i only.                                    *)
C2_Isolation ==
  /\ pc \in {"await", "done"} =>
       \A i \in 1..N :
         promises[i] =
           IF SettledAt(i) THEN QuoteCallback(tickers[i], upstream[i]) ELSE Pending
  /\ (pc = "done" /\ N >= 1) =>
       /\ Len(Data) = N
       /\ \A i \in 1..N :
            /\ SettledAt(i)
            /\ Data[i].ok = True <=>
                 (upstream[i].status = "fulfilled" /\ upstream[i].value.t = "object")
            /\ Data[i] = JsonObject(MapResult(QuoteCallback(tickers[i], upstream[i]),
                                              tickers[i]))

\* A failed lookup settled before a successful one, and both entries stand.
C2_Witness ==
  /\ pc = "done"
  /\ N = 3
  /\ order = <<2, 3, 1>>
  /\ upstream[2].status = "rejected"
  /\ upstream[1] = Fulfilled(QFull)
  /\ upstream[3] = Fulfilled(QUndefined)
  /\ Data[1].ok = True
  /\ Data[2].ok = False
  /\ Data[3].ok = False

----------------------------------------------------------------------------
(* C3: when the tickers parameter is absent or holds only separators and     *)
(* whitespace, no upstream lookup is ever started and the request ends with  *)
(* status 400 and the body {error: "Missing tickers"}.                       *)
C3_MissingTickers ==
  BlankParam =>
    /\ calls = <<>>
    /\ pc \notin {"map", "await"}
    /\ pc # "parse" => N = 0
    /\ pc = "done" =>
         response = [status |-> 400, body |-> [error |-> Str(MissingTickersText)]]

\* " ,, " was rejected.
C3_Witness ==
  /\ pc = "done"
  /\ tickersParam = Str(<<" ", ",", ",", " ">>)
  /\ response.status = 400
  /\ calls = <<>>

\* An absent parameter was rejected.
C3_WitnessAbsent ==
  /\ pc = "done"
  /\ tickersParam = Null
  /\ response.status = 400

----------------------------------------------------------------------------
(* C4: when every lookup of a batch of N >= 1 symbols fails, the response    *)
(* is still a 200 and its data array holds N entries, all of them ok:false.  *)
C4_AllFail ==
  (pc = "done" /\ N >= 1 /\ \A i \in 1..N : FailedAt(i)) =>
    /\ response.status = 200
    /\ Len(Data) = N
    /\ \A i \in 1..N : Data[i].ok = False

\* Three lookups, all failed, each in its own way.
C4_Witness ==
  /\ pc = "done"
  /\ N = 3
  /\ \A i \in 1..N : FailedAt(i)
  /\ Distinct(upstream)
  /\ response.status = 200

----------------------------------------------------------------------------
(* C5: once parsing has produced a symbol the batch cannot fail: whatever    *)
(* the lookups returned or rejected with, the response is a 200 whose body   *)
(* is a data array, and a failed lookup shows only as an entry               *)
(* {ok:false, ticker, error} with a string for error.                        *)
C5_NeverFails ==
  (pc = "done" /\ N >= 1) =>
    /\ response.status = 200
    /\ DOMAIN response.body = {"data"}
    /\ \A i \in 1..N :
         FailedAt(i) =>
           /\ DOMAIN Data[i] = {"ok", "ticker", "error"}
           /\ Data[i].ok = False
           /\ Data[i].error.t = "string"

\* A batch whose lookups returned null, returned undefined and rejected with null.
C5_Witness ==
  /\ pc = "done"
  /\ N = 3
  /\ upstream[1] = Fulfilled(QNull)
  /\ upstream[2] = Fulfilled(QUndefined)
  /\ upstream[3] = Rejected(Reason("null", <<>>, <<>>, Undefined))
  /\ response.status = 200

----------------------------------------------------------------------------
(* C6: every lookup of the batch is started before any of them settles and   *)
(* before the handler waits; while a lookup is pending there is no response; *)
(* the response exists only once all N lookups have settled.                 *)
C6_FanOutFanIn ==
  /\ pc = "map" => \A i \in 1..N : ~SettledAt(i)
  /\ (\E i \in DOMAIN upstream : SettledAt(i)) =>
       (Len(calls) = N /\ \A i \in 1..N : upstream[i].status # "idle")
  /\ pc = "await" => (Len(calls) = N /\ ~Responded)
  /\ (Responded /\ N >= 1) => \A i \in 1..N : SettledAt(i)
  /\ (\E i \in DOMAIN upstream : upstream[i].status = "pending") => ~Responded

\* Three lookups in flight, two settled, the handler still waiting.
C6_Witness ==
  /\ pc = "await"
  /\ N = 3
  /\ order = <<3, 1>>
  /\ upstream[2].status = "pending"
  /\ ~Responded

----------------------------------------------------------------------------
(* C7: when every upstream lookup eventually settles, every request          *)
(* eventually returns a response.                                            *)
C7_EventuallyResponds == <>Responded

\* A batch of three lookups has been answered.
C7_Witness ==
  /\ Responded
  /\ N = 3
  /\ Len(order) = 3
  /\ response.status = 200

----------------------------------------------------------------------------
(* C8: the parsed symbols are the pieces of the parameter between the        *)
(* separators, each without its leading and trailing whitespace and in       *)
(* upper case, the pieces that hold only whitespace left out, the others in  *)
(* their order and with their repetitions; no parsed symbol is empty; and    *)
(* "  aapl , MSFT,, msft " parses to AAPL, MSFT, MSFT.                       *)

\* The positions at which a piece of s starts.
PieceStarts(s) == {a \in 1..(Len(s) + 1) : a = 1 \/ s[a - 1] = ","}

\* The last position of the piece that starts at a (a - 1 when it is empty).
PieceEnd(s, a) ==
  CHOOSE b \in (a - 1)..Len(s) :
    /\ b = Len(s) \/ s[b + 1] = ","
    /\ \A c \in a..b : s[c] # ","

\* The positions of the piece starting at a that hold no whitespace.
Inked(s, a) == {c \in a..PieceEnd(s, a) : s[c] # " "}

Least(S) == CHOOSE x \in S : \A y \in S : x <= y
Greatest(S) == CHOOSE x \in S : \A y \in S : x >= y

KeptStarts(s) == {a \in PieceStarts(s) : Inked(s, a) # {}}

C8_Parser ==
  pc # "parse" =>
    LET s == ParamText
        kept == KeptStarts(s)
        rank(a) == Cardinality({x \in kept : x <= a})
    IN /\ Len(tickers) = Cardinality(kept)
       /\ \A a \in kept :
            LET core == SubSeq(s, Least(Inked(s, a)), Greatest(Inked(s, a)))
            IN tickers[rank(a)] = [i \in 1..Len(core) |-> UpperChar(core[i])]
       /\ \A k \in 1..Len(tickers) : tickers[k] # <<>>
       /\ s = ExampleParam =>
            tickers = << <<"A", "A", "P", "L">>, <<"M", "S", "F", "T">>,
                         <<"M", "S", "F", "T">> >>

\* The example of the specification has been parsed.
C8_Witness ==
  /\ pc # "parse"
  /\ ParamText = ExampleParam
  /\ Len(tickers) = 3
  /\ tickers[2] = tickers[3]

----------------------------------------------------------------------------
(* C9: every entry of a batch response is either ok:true with exactly the    *)
(* fields ticker, name, price, changePercent and currency, or ok:false with  *)
(* exactly the fields ticker and error; in both the ticker is the parsed     *)
(* symbol of the position.                                                   *)
C9_TwoVariants ==
  (pc = "done" /\ N >= 1) =>
    \A i \in 1..N :
      /\ Data[i].ticker = Str(tickers[i])
      /\ \/ /\ Data[i].ok = True
            /\ DOMAIN Data[i] = {"ok", "ticker", "name", "price", "changePercent", "currency"}
         \/ /\ Data[i].ok = False
            /\ DOMAIN Data[i] = {"ok", "ticker", "error"}

----------------------------------------------------------------------------
(* C10: one upstream lookup is issued per input position, in input order, a  *)
(* repeated symbol being looked up once per occurrence; no lookup is issued  *)
(* again after a failure, so a batch of N symbols issues exactly N lookups.  *)
C10_OneLookupPerPosition ==
  /\ Len(calls) <= N
  /\ calls = SubSeq(tickers, 1, Len(calls))
  /\ pc = "map" => Len(calls) = next - 1
  /\ (pc \in {"await", "done"} /\ N >= 1) => calls = tickers

\* A symbol requested twice, its first lookup failed and its second succeeded.
C10_Witness ==
  /\ pc = "done"
  /\ N = 2
  /\ tickers[1] = tickers[2]
  /\ FailedAt(1)
  /\ ~FailedAt(2)
  /\ calls = tickers

----------------------------------------------------------------------------
(* C11: when one symbol stands at two positions i and j of a batch, both     *)
(* positions have their entry, and when the lookup of position i failed and  *)
(* the lookup of position j returned a payload, entry i is ok:false and      *)
(* entry j is ok:true.                                                       *)
C11_DuplicatesIndependent ==
  (pc = "done" /\ N >= 1) =>
    \A i, j \in 1..N :
      (i # j /\ tickers[i] = tickers[j]) =>
        /\ Len(Data) = N
        /\ Data[i].ticker = Str(tickers[i])
        /\ Data[j].ticker = Str(tickers[i])
        /\ (upstream[i].status = "rejected" /\ upstream[j].status = "fulfilled"
              /\ upstream[j].value.t = "object") =>
             (Data[i].ok = False /\ Data[j].ok = True)

\* A symbol requested twice; its first lookup failed first, its second succeeded.
C11_Witness ==
  /\ pc = "done"
  /\ N = 2
  /\ tickers[1] = tickers[2]
  /\ order = <<1, 2>>
  /\ upstream[1].status = "rejected"
  /\ upstream[2] = Fulfilled(QFull)
  /\ Data[1].ok = False
  /\ Data[2].ok = True

----------------------------------------------------------------------------
(* C12: a lookup that rejected or returned a malformed payload has an        *)
(* ok:false entry at its position, and an ok:true entry stands only for a    *)
(* lookup that returned a well-formed quote payload.                         *)

\* A quote payload as the client's QuoteRow type takes it: an object with a
\* numeric price, a numeric change and a currency string.
WellFormed(q) ==
  /\ q.t = "object"
  /\ q.regularMarketPrice.t = "number"
  /\ q.regularMarketChangePercent.t = "number"
  /\ q.currency.t = "string"

C12_FailureMapping ==
  (pc = "done" /\ N >= 1) =>
    \A i \in 1..N :
      Data[i].ok = True <=>
        (upstream[i].status = "fulfilled" /\ WellFormed(upstream[i].value))

----------------------------------------------------------------------------
(* C13, as amended: the error field of a failed lookup is the message of the *)
(* rejection value when that message is a non-empty string, and otherwise    *)
(* the string form of the rejection value: "Error" for an Error with an      *)
(* empty message, the string itself for a string, "null", "undefined" and    *)
(* "[object Object]" for null, undefined and an object without message.      *)
C13_ErrorField ==
  (pc = "done" /\ N >= 1) =>
    \A i \in 1..N :
      upstream[i].status = "rejected" =>
        LET r == upstream[i].reason
        IN Data[i].error =
             CASE r.t = "Error" /\ r.message.v # <<>> -> r.message
               [] r.t = "Error" /\ r.message.v = <<>> -> Str(<<"E", "r", "r", "o", "r">>)
               [] r.t = "string" -> Str(r.v)
               [] r.t = "null" -> Str(<<"n", "u", "l", "l">>)
               [] r.t = "undefined" -> Str(<<"u", "n", "d", "e", "f", "i", "n", "e", "d">>)
               [] r.t = "object" ->
                    Str(<<"[", "o", "b", "j", "e", "c", "t", " ", "O", "b", "j", "e", "c", "t", "]">>)

\* An Error with an empty message was reported as "Error".
C13_Witness ==
  /\ pc = "done"
  /\ N >= 1
  /\ upstream[1] = Rejected(NewError(<<>>))
  /\ Data[1].error = Str(ErrorText)

\* C13 as stated: the error field is the message field whenever the rejection
\* value has one, and its string form only when it has none.
C13_MessageWheneverPresent ==
  (pc = "done" /\ N >= 1) =>
    \A i \in 1..N :
      upstream[i].status = "rejected" =>
        LET r == upstream[i].reason
        IN Data[i].error =
             IF r.t \in {"Error", "object"} /\ r.message.t # "undefined"
             THEN r.message ELSE Str(StringOf(r))

----------------------------------------------------------------------------
(* C15: the price, changePercent and currency of an ok:true entry are the    *)
(* provider's regularMarketPrice, regularMarketChangePercent and currency,   *)
(* unchanged; a value the provider left out is left out of the entry.        *)
FieldSources ==
  { <<"price", "regularMarketPrice">>,
    <<"changePercent", "regularMarketChangePercent">>,
    <<"currency", "currency">> }

C15_Verbatim ==
  (pc = "done" /\ N >= 1) =>
    \A i \in 1..N :
      (upstream[i].status = "fulfilled" /\ upstream[i].value.t = "object") =>
        \A f \in FieldSources :
          LET x == upstream[i].value[f[2]]
          IN IF x.t = "undefined" THEN f[1] \notin DOMAIN Data[i]
             ELSE f[1] \in DOMAIN Data[i] /\ Data[i][f[1]] = x

\* A full payload, a payload of zeros and an empty payload were passed through.
C15_Witness ==
  /\ pc = "done"
  /\ N = 3
  /\ upstream[1] = Fulfilled(QFull)
  /\ upstream[2] = Fulfilled(QBlankShort)
  /\ upstream[3] = Fulfilled(QEmpty)
  /\ Data[1].price = Num(PriceText)
  /\ Data[2].price = Num(<<"0">>)
  /\ "price" \notin DOMAIN Data[3]

----------------------------------------------------------------------------
(* Vocabulary of the single-item endpoints. *)

SingleItem == endpoint \in {"quote", "history", "analyst"}
Answered == SingleItem /\ cpc = "done"
TickerMissing == tickerParam = Null \/ tickerParam = Str(<<>>)

\* A name the provider gave: a string that is not empty.
Present(x) == x.t = "string" /\ x.v # <<>>

ExpectedName(q, ticker) ==
  IF Present(q.shortName) THEN q.shortName
  ELSE IF Present(q.longName) THEN q.longName
  ELSE Str(ticker)

----------------------------------------------------------------------------
(* C14: the name of an ok:true entry is the provider's short name when it    *)
(* is present (a non-empty string), else the long name when it is present,   *)
(* else the ticker that was looked up; the 200 response of the single-quote  *)
(* endpoint takes its name from the same chain.                              *)
C14_NameChain ==
  /\ (pc = "done" /\ N >= 1) =>
       \A i \in 1..N :
         (upstream[i].status = "fulfilled" /\ upstream[i].value.t = "object") =>
           Data[i].name = ExpectedName(upstream[i].value, tickers[i])
  /\ (endpoint = "quote" /\ cpc = "done" /\ response.status = 200) =>
       response.body.name = ExpectedName(cupstream.value, TickerOf(tickerParam))

\* One batch answered with a long name where the short name was missing, a
\* long name where the short name was empty, and the ticker where both were
\* missing.
C14_Witness ==
  /\ pc = "done"
  /\ N = 3
  /\ upstream[1] = Fulfilled(QLongOnly)
  /\ upstream[2] = Fulfilled(QBlankShort)
  /\ upstream[3] = Fulfilled(QNoName)
  /\ Data[1].name = Str(LongText)
  /\ Data[2].name = Str(LongText)
  /\ Data[3].name = Str(tickers[3])

----------------------------------------------------------------------------
(* C17: each single-item endpoint answers 400 when the ticker is missing,    *)
(* 200 with a JSON payload when the upstream call succeeds, and 500 with a   *)
(* body holding both error and details when the upstream call fails,         *)
(* whatever value the upstream call throws.                                  *)
C17_StatusContract ==
  Answered =>
    /\ TickerMissing => response.status = 400
    /\ cupstream.status = "fulfilled" =>
         response.status = 200 /\ "none" \notin DOMAIN response.body
    /\ cupstream.status = "rejected" =>
         /\ response.status = 500
         /\ {"error", "details"} \subseteq DOMAIN response.body

----------------------------------------------------------------------------
(* C18: a single-item request issues at most one upstream call, none when    *)
(* it answers 400, and exactly one when that call failed: a failed call is   *)
(* not repeated.                                                             *)
C18_SingleShot ==
  SingleItem =>
    /\ Len(ccalls) <= 1
    /\ response.status = 400 => ccalls = <<>>
    /\ cupstream.status = "rejected" => Len(ccalls) = 1

\* A request whose one upstream call failed was answered.
C18_Witness ==
  /\ Answered
  /\ cupstream.status = "rejected"
  /\ Len(ccalls) = 1
  /\ response.status = 500

----------------------------------------------------------------------------
(* C19: the data of a history response is exactly the upstream rows that     *)
(* have a date and a numeric close, in upstream order, each reduced to the   *)
(* first ten characters of its ISO date (YYYY-MM-DD) and its unchanged       *)
(* close; rows lacking either are dropped, and a null or undefined upstream  *)
(* result gives an empty sequence.                                           *)
GoodRow(r) == r.t = "object" /\ r.date.t = "date" /\ r.close.t = "number"

C19_HistoryData ==
  (endpoint = "history" /\ cpc = "done" /\ cupstream.status = "fulfilled") =>
    LET rows == IF cupstream.value.t = "array" THEN cupstream.value.rows ELSE <<>>
        data == response.body.data
        good == {i \in DOMAIN rows : GoodRow(rows[i])}
    IN /\ Len(data) = Cardinality(good)
       /\ \A i \in good :
            LET k == Cardinality({j \in good : j <= i})
            IN /\ DOMAIN data[k] = {"date", "close"}
               /\ data[k].date = Str(SubSeq(rows[i].date.v, 1, 10))
               /\ Len(data[k].date.v) = 10
               /\ data[k].date.v[5] = "-" /\ data[k].date.v[8] = "-"
               /\ data[k].close = rows[i].close

\* A row without a close was dropped and the row after it was kept.
C19_Witness ==
  /\ endpoint = "history"
  /\ cpc = "done"
  /\ cupstream.status = "fulfilled"
  /\ cupstream.value.t = "array"
  /\ Len(cupstream.value.rows) = 2
  /\ ~GoodRow(cupstream.value.rows[1])
  /\ cupstream.value.rows[1].t = "object"
  /\ cupstream.value.rows[1].close = Null
  /\ GoodRow(cupstream.value.rows[2])
  /\ Len(response.body.data) = 1
  /\ response.body.data[1].close = cupstream.value.rows[2].close

----------------------------------------------------------------------------
(* C16: batch requests are request-scoped: two requests with the same        *)
(* tickers parameter whose lookups had the same outcome at every position    *)
(* return identical responses, whichever of them started first and however   *)
(* their lookups interleaved.                                                *)
C16_RequestScoped ==
  ( /\ reqs # <<>>
    /\ reqs[1].pc = "done"
    /\ reqs[2].pc = "done"
    /\ reqs[1].param = reqs[2].param
    /\ reqs[1].upstream = reqs[2].upstream ) =>
    reqs[1].response = reqs[2].response

\* Two requests for the same ticker twice, the first lookup failing and the
\* second succeeding in both, settled in opposite orders, were answered.
C16_Witness ==
  /\ reqs # <<>>
  /\ reqs[1].pc = "done"
  /\ reqs[2].pc = "done"
  /\ reqs[1].param = reqs[2].param
  /\ reqs[1].tickers = <<<<"A">>, <<"A">>>>
  /\ reqs[1].upstream = reqs[2].upstream
  /\ reqs[1].upstream[1].status = "rejected"
  /\ reqs[1].upstream[2].status = "fulfilled"
  /\ reqs[1].order = <<1, 2>>
  /\ reqs[2].order = <<2, 1>>
  /\ reqs[1].response.status = 200

----------------------------------------------------------------------------
(* C20: a card shows the marker 'No disponible' together with the            *)
(* placeholder price if and only if the snapshot has no entry for its ticker *)
(* or the entry has ok:false; the card of an ok:true entry never shows the   *)
(* marker.                                                                   *)
C20_FailedShownDistinctly ==
  card.rendered =>
    /\ (card.marker /\ card.price = Placeholder)
         <=> (cardRow = NoEntry \/ cardRow.ok = False)
    /\ (cardRow # NoEntry /\ cardRow.ok = True) => ~card.marker

\* The card of a failed entry was rendered with the marker and no price.
C20_Witness ==
  /\ card.rendered
  /\ cardRow # NoEntry
  /\ cardRow.ok = False
  /\ card.marker
  /\ card.price = Placeholder

----------------------------------------------------------------------------
(* C28: the history endpoint accepts exactly the ranges 1m, 3m, 6m and 1y,   *)
(* in any letter case, and 1y when the parameter is absent or empty; any     *)
(* other range is answered 400 "Invalid range" and a missing ticker 400      *)
(* "Missing ticker", both without an upstream call, the missing ticker       *)
(* taking precedence.                                                        *)
AcceptedRange(p) ==
  \/ p \in {Null, Str(<<>>)}
  \/ ToLowerCase(p.v) \in {<<"1", "m">>, <<"3", "m">>, <<"6", "m">>, <<"1", "y">>}

C28_RangeValidation ==
  (endpoint = "history" /\ cpc = "done") =>
    /\ TickerMissing =>
         /\ response = [status |-> 400, body |-> [error |-> Str(MissingTickerText)]]
         /\ ccalls = <<>>
    /\ (~TickerMissing /\ ~AcceptedRange(rangeParam)) =>
         /\ response = [status |-> 400, body |-> [error |-> Str(InvalidRangeText)]]
         /\ ccalls = <<>>
    /\ (~TickerMissing /\ AcceptedRange(rangeParam)) =>
         /\ Len(ccalls) = 1
         /\ response.status # 400

----------------------------------------------------------------------------
(* Vocabulary of the page. *)

InFlight(k) == {f \in inflight : f.kind = k}
LastSnapshot == completed["snapshot"]
LastHistory == completed["history"]
LastProjections == completed["projections"]

\* The load read its response to the end: the fetch resolved, the body was
\* JSON and the status was 2xx.
LoadedFine(res) ==
  /\ res # NetworkError
  /\ "none" \notin DOMAIN res.body
  /\ res.status >= 200
  /\ res.status < 300

\* The rows of a 200 response of the batch endpoint.
RowsOf(res) == IF "data" \in DOMAIN res.body THEN res.body.data ELSE <<>>

----------------------------------------------------------------------------
(* C21: after a snapshot load that the batch endpoint answered with 200, the *)
(* snapshot has an entry for every ticker the page asked for and no other,   *)
(* and snapshot[t].ticker = t, whichever lookups failed. The list the page   *)
(* really sends (BIG7, US_TOP_13 and CHILE) has no repeated ticker, and its  *)
(* first two lists and every two neighbours of it come back from the wire    *)
(* and the server's parser as they were.                                     *)
C21_SnapshotKeys ==
  /\ mounted = "no" =>
       /\ Distinct(allTickers)
       /\ \A l \in {BIG7, US_TOP_13} \cup
                   {SubSeq(allTickers, i, i + 1) : i \in 1..(Len(allTickers) - 1)} :
            ParseTickersParam(Str(SearchParam(EncodeURIComponent(Join(l, <<",">>))))) = l
  /\ (mounted = "yes" /\ LastSnapshot.res.status = 200 /\ LastSnapshot.src # <<>>) =>
       /\ DOMAIN snapshot = {sampleTickers[i] : i \in DOMAIN sampleTickers}
       /\ \A t \in DOMAIN snapshot : snapshot[t].ticker = Str(t)

\* A snapshot was loaded although the lookup of the first ticker had failed.
C21_Witness ==
  /\ mounted = "yes"
  /\ LastSnapshot.res.status = 200
  /\ Len(LastSnapshot.src) = 2
  /\ LastSnapshot.src[1].status = "rejected"
  /\ LastSnapshot.src[2].status = "fulfilled"
  /\ snapshot[sampleTickers[1]].ok = False
  /\ snapshot[sampleTickers[2]].ok = True
  /\ snapshot[sampleTickers[2]].ticker = Str(CHILE[2])

----------------------------------------------------------------------------
(* C22: whenever no history request is in flight, the history the page holds *)
(* is the response to the request made last, the one for the current         *)
(* (selected, range), whatever order the earlier responses arrived in.       *)
C22_LatestHistoryShown ==
  (mounted = "yes" /\ InFlight("history") = {}) =>
    /\ LastHistory.id = started["history"]
    /\ history = IF LastHistory.failed THEN <<>> ELSE HistoryRows(LastHistory.res.body)

----------------------------------------------------------------------------
(* C23: from the moment a snapshot load fails until the next snapshot load   *)
(* starts the error message is non-empty, and likewise for a history load: a *)
(* load of the other kind does not clear it.                                 *)
C23_ErrorKept ==
  \A k \in {"snapshot", "history"} :
    (mounted = "yes" /\ completed[k].fresh /\ completed[k].failed) => error # <<>>

----------------------------------------------------------------------------
(* C24: each loading flag is true exactly while at least one request of its  *)
(* kind is in flight, overlapping requests included.                         *)
C24_LoadingWhileInFlight ==
  mounted = "yes" =>
    /\ loadingSnapshot <=> InFlight("snapshot") # {}
    /\ loadingHistory <=> InFlight("history") # {}
    /\ loadingAnalyst <=> InFlight("analyst") # {}
    /\ loadingProj <=> InFlight("projections") # {}

----------------------------------------------------------------------------
(* C25: a snapshot load that settles replaces the snapshot as a whole. After *)
(* a success the snapshot has exactly the tickers of the response, each with *)
(* the last row the response has for it; after a failure (a status that is   *)
(* not 2xx, a network error, a body that is not JSON) the snapshot is empty  *)
(* and error is set.                                                         *)
SnapshotLoadDone ==
  /\ completed'["snapshot"] # completed["snapshot"]
  /\ completed'["snapshot"].fresh

C25_SnapshotReplaced ==
  [][SnapshotLoadDone =>
       LET res == completed'["snapshot"].res
           rows == RowsOf(res)
       IN IF LoadedFine(res)
          THEN /\ DOMAIN snapshot' = {rows[i].ticker.v : i \in DOMAIN rows}
               /\ \A i \in DOMAIN rows :
                    (\A j \in DOMAIN rows : j > i => rows[j].ticker # rows[i].ticker)
                      => snapshot'[rows[i].ticker.v] = rows[i]
          ELSE /\ snapshot' = <<>>
               /\ error' # <<>>]_vars

\* The second snapshot load of a visit failed and left no quote.
C25_Witness ==
  /\ mounted = "yes"
  /\ LastSnapshot.id = 2
  /\ LastSnapshot.failed
  /\ LastSnapshot.fresh
  /\ snapshot = <<>>
  /\ error # <<>>

----------------------------------------------------------------------------
(* C26: a change of the selected ticker or of the range starts exactly one   *)
(* history load and one analyst load, both for the new pair, sets showAnalyst*)
(* to false and starts no other load; a change of projTicker starts exactly  *)
(* one projections load, for the new ticker, and no other load.              *)
NewFetches(k) == {f \in inflight' \ inflight : f.kind = k}

StartedBy(ks) ==
  /\ issued' = issued + Cardinality(ks)
  /\ \A k \in Kinds :
       IF k \in ks
       THEN Cardinality(NewFetches(k)) = 1 /\ started'[k] = started[k] + 1
       ELSE NewFetches(k) = {} /\ started'[k] = started[k]

C26_LoadsOfAChange ==
  [][/\ (selected' # selected \/ range' # range) =>
          /\ StartedBy({"history", "analyst"})
          /\ \A f \in NewFetches("history") :
               f.ticker = Str(selected') /\ f.range = Str(range')
          /\ \A f \in NewFetches("analyst") : f.ticker = Str(selected')
          /\ showAnalyst' = FALSE
     /\ projTicker' # projTicker =>
          /\ StartedBy({"projections"})
          /\ \A f \in NewFetches("projections") : f.ticker = Str(projTicker')]_vars

\* Another ticker was selected: a second history load and a second analyst
\* load started, no second snapshot or projections load, and the analyst
\* panel is closed.
C26_Witness ==
  /\ mounted = "yes"
  /\ clicks = 1
  /\ selected # InitialTicker
  /\ started = [k \in Kinds |-> IF k \in {"history", "analyst"} THEN 2 ELSE 1]
  /\ \E f \in InFlight("history") : f.id = 2 /\ f.ticker = Str(selected)
  /\ ~showAnalyst

----------------------------------------------------------------------------
(* C27: one snapshot load starts at mount and one at every tick of the       *)
(* 60-second timer while the page is mounted, whether or not the earlier     *)
(* loads have finished: the loads started are one more than the periods that *)
(* have passed (the tick of a period that has just ended being due). After   *)
(* the unmount no snapshot load starts.                                      *)
TickDue == timer.active /\ timer.due <= now

C27_SnapshotPolling ==
  /\ [](mounted = "yes" =>
          started["snapshot"] = 1 + (now \div PollMs) - (IF TickDue THEN 1 ELSE 0))
  /\ [][mounted = "gone" =>
          /\ started'["snapshot"] = started["snapshot"]
          /\ NewFetches("snapshot") = {}
          /\ mounted' = "gone"]_vars

\* Two periods passed and the third snapshot load started while the first
\* two were still in flight.
C27_Witness ==
  /\ mounted = "yes"
  /\ now = 2 * PollMs
  /\ started["snapshot"] = 3
  /\ Cardinality(InFlight("snapshot")) = 3

----------------------------------------------------------------------------
(* C29: after a projections load succeeded projRows holds the most recent    *)
(* updates the provider has for the ticker, 10 of them or all when it has    *)
(* fewer, the most recent first; after a failed load projRows is empty and   *)
(* projError is set.                                                         *)
ProviderUpdates ==
  IF LastProjections.src = <<>> THEN <<>>
  ELSE LET o == LastProjections.src[1]
       IN IF o.status = "fulfilled" /\ o.value.history.t = "array"
          THEN o.value.history.items ELSE <<>>

NonIncreasing(rows) ==
  \A i \in 1..(Len(rows) - 1) : parseAnalystTime(rows[i]) >= parseAnalystTime(rows[i + 1])

C29_LatestTenShown ==
  (mounted = "yes" /\ LastProjections.id > 0) =>
    IF LastProjections.failed
    THEN /\ projRows = <<>>
         /\ LastProjections.fresh => projError # <<>>
    ELSE LET shown == {projRows[i] : i \in DOMAIN projRows}
             all == {ProviderUpdates[i] : i \in DOMAIN ProviderUpdates}
         IN /\ Len(projRows) <= ProjectionsShown
            /\ NonIncreasing(projRows)
            /\ Len(ProviderUpdates) >= ProjectionsShown => Len(projRows) = ProjectionsShown
            /\ shown \subseteq all
            /\ \A u \in all \ shown :
                 /\ Len(projRows) = ProjectionsShown
                 /\ \A v \in shown : parseAnalystTime(v) >= parseAnalystTime(u)

====
